---- MODULE Spec2Model ----
(***************************************************************************)
(* reatom-dnd: the drag-and-drop session engine (reatomDnd), its node      *)
(* registry, scroll tracking/batching, rect primitives and the collision   *)
(* effect, as a state machine.                                             *)
(*                                                                         *)
(* The reactive runtime (@reatom/core) is an external collaborator: atoms  *)
(* are plain variables, an effect is an action that runs when one of the   *)
(* cells it tracked has changed (effectPending), and rAF() is a cell that  *)
(* changes on every animation frame (FrameTick).                           *)
(***************************************************************************)
EXTENDS Integers, Sequences, FiniteSets, TLC

\* ------------------------------------------------------------------ bounds
MaxPageOps == 1     \* changes the page makes after its first render
MaxScrollOps == 3   \* scrolls in a scrolling session
MaxX == 1           \* pointer x coordinates 0..MaxX
MaxSubscribeOps == 2   \* subscriptions and unsubscriptions the page makes
MaxRenderOps == 2   \* changes a re-rendering page makes after its first render

\* ------------------------------------------------------------- the document
DragIds == {"card"}
DropIds == {"todo", "done"}
Ids == DragIds \cup DropIds

Null == "null"          \* null element reference
NoId == "undefined"     \* lookup miss in a registry map
\* a model object is told apart by its type, its id and its generation (the
\* internalId `${refCounter++}:${id}` is unique per factory call)
NoModel == [type |-> "none", id |-> NoId, gen |-> 0]   \* null model reference

\* elements of the page; "handle" is a child of the card element, "done" lives
\* in the scrollable "list", "free" is an element outside every draggable
Nodes == {"cardEl", "handle", "todoEl", "doneEl", "list", "free"}
Document == "document"
Containers == {Document, "list"}
\* where a press can land: inside the card, on the card, on a column, elsewhere
Targets == {"handle", "cardEl", "todoEl", "free"}

parentElement(n) ==
  CASE n = "handle" -> "cardEl"
    [] n = "doneEl" -> "list"
    [] OTHER -> Null

\* getComputedStyle(el).overflowX is auto/scroll
isScrollable(n) == n = "list"

\* the element the UI layer renders for a model id
ElementOf(id) ==
  CASE id = "card" -> "cardEl"
    [] id = "todo" -> "todoEl"
    [] id = "done" -> "doneEl"

OverlayEl == "overlayEl"

\* elements the page attaches and detaches
Detachable == {"doneEl"}

Positions == {[x |-> i, y |-> 0] : i \in 0..MaxX}

\* ------------------------------------------------------------ Map helpers
\* a JS Map is a sequence of [key, value] entries in insertion order
MapHas(m, k) == \E i \in 1..Len(m) : m[i].key = k
MapGet(m, k, dflt) ==
  IF MapHas(m, k) THEN m[CHOOSE i \in 1..Len(m) : m[i].key = k].value ELSE dflt
MapSet(m, k, v) ==
  IF MapHas(m, k)
  THEN [i \in 1..Len(m) |-> IF m[i].key = k THEN [key |-> k, value |-> v] ELSE m[i]]
  ELSE Append(m, [key |-> k, value |-> v])
MapDelete(m, k) == SelectSeq(m, LAMBDA e : e.key # k)
MapValues(m) == [i \in 1..Len(m) |-> m[i].value]

Max(a, b) == IF a >= b THEN a ELSE b
Min(a, b) == IF a <= b THEN a ELSE b

\* ------------------------------------------------------------------ rects
DOMRect(x, y, w, h) ==
  [x |-> x, y |-> y, width |-> w, height |-> h,
   left |-> x, right |-> x + w, top |-> y, bottom |-> y + h]

makeRect(id, rect) ==
  [id |-> id, x |-> rect.x, y |-> rect.y, width |-> rect.width,
   height |-> rect.height, left |-> rect.left, right |-> rect.right,
   top |-> rect.top, bottom |-> rect.bottom]

\* rect.update: replace the stored value unless shallow-equal
update(current, rect) ==
  LET next == makeRect(current.id, rect)
  IN IF current = next THEN current ELSE next

\* rect.update calls target.set: the measured box differs from the stored one
updateSets_always(current, rect) == TRUE
updateSets(current, rect) == current # makeRect(current.id, rect)

\* variant: the right and bottom edges stay where they were
updateWithOffset_leftTop(current, deltaX, deltaY) ==
  [current EXCEPT !.x = @ - deltaX, !.y = @ - deltaY,
                  !.left = @ - deltaX, !.top = @ - deltaY]

updateWithOffset(current, deltaX, deltaY) ==
  [id |-> current.id, x |-> current.x - deltaX, y |-> current.y - deltaY,
   width |-> current.width, height |-> current.height,
   left |-> current.left - deltaX, right |-> current.right - deltaX,
   top |-> current.top - deltaY, bottom |-> current.bottom - deltaY]

\* variant: the right and bottom edges are not recomputed
rectUpdatePosition_stale(current, position) ==
  [current EXCEPT !.x = position.x, !.y = position.y,
                  !.left = position.x, !.top = position.y]

rectUpdatePosition(current, position) ==
  [id |-> current.id, width |-> current.width, height |-> current.height,
   x |-> position.x, y |-> position.y, left |-> position.x, top |-> position.y,
   right |-> position.x + current.width, bottom |-> position.y + current.height]

\* ------------------------------------------------------------- strategies
\* value = intersectionArea / overlayArea, kept as a fraction
FracGreater(a, b) == a.num * b.den > b.num * a.den

\* collisions.sort((a, b) => b.value - a.value): a stable sort, x goes after
\* every element that does not have a smaller value
\* variant: x goes before the elements of equal value
RECURSIVE InsertDescending_unstable(_, _)
InsertDescending_unstable(sorted, x) ==
  IF sorted = <<>> THEN <<x>>
  ELSE IF ~FracGreater(Head(sorted).value, x.value) THEN <<x>> \o sorted
  ELSE <<Head(sorted)>> \o InsertDescending_unstable(Tail(sorted), x)

RECURSIVE InsertDescending(_, _)
InsertDescending(sorted, x) ==
  IF sorted = <<>> THEN <<x>>
  ELSE IF FracGreater(x.value, Head(sorted).value) THEN <<x>> \o sorted
  ELSE <<Head(sorted)>> \o InsertDescending(Tail(sorted), x)

RECURSIVE SortDescending(_)
SortDescending(s) ==
  IF s = <<>> THEN <<>>
  ELSE InsertDescending(SortDescending(SubSeq(s, 1, Len(s) - 1)), s[Len(s)])

\* variant: a candidate that only touches the overlay is kept too
rectangleIntersection_touching(args) ==
  LET overlayRect == args.overlayRect
      overlayArea == (overlayRect.right - overlayRect.left)
                       * (overlayRect.bottom - overlayRect.top)
      intersectionArea(d) ==
        Max(0, Min(overlayRect.right, d.right) - Max(overlayRect.left, d.left))
          * Max(0, Min(overlayRect.bottom, d.bottom) - Max(overlayRect.top, d.top))
      hits == SelectSeq(args.droppingRects,
                        LAMBDA d : /\ overlayRect.right >= d.left
                                   /\ d.right >= overlayRect.left
                                   /\ overlayRect.bottom >= d.top
                                   /\ d.bottom >= overlayRect.top)
      collisions == [i \in 1..Len(hits) |->
                       [value |-> [num |-> intersectionArea(hits[i]), den |-> overlayArea],
                        droppingRect |-> hits[i]]]
  IN IF overlayArea = 0 THEN <<>>
     ELSE SortDescending(collisions)

rectangleIntersection(args) ==
  LET overlayRect == args.overlayRect
      overlayArea == (overlayRect.right - overlayRect.left)
                       * (overlayRect.bottom - overlayRect.top)
      intersectionArea(d) ==
        Max(0, Min(overlayRect.right, d.right) - Max(overlayRect.left, d.left))
          * Max(0, Min(overlayRect.bottom, d.bottom) - Max(overlayRect.top, d.top))
      hits == SelectSeq(args.droppingRects, LAMBDA d : intersectionArea(d) > 0)
      collisions == [i \in 1..Len(hits) |->
                       [value |-> [num |-> intersectionArea(hits[i]), den |-> overlayArea],
                        droppingRect |-> hits[i]]]
  IN IF overlayArea = 0 THEN <<>>
     ELSE SortDescending(collisions)

\* the strategy the page configures its engine with
intersectionStrategy(args) == rectangleIntersection(args)

\* -------------------------------------------------------------- modifiers
\* the modifier list the page configures its engine with
Modifiers == <<>>

resolveOffset(value, size) ==
  CASE value = "start" -> 0
    [] value = "center" -> -(size \div 2)
    [] value = "end" -> -size
    [] OTHER -> value

\* a rect argument that is null
NoRect == makeRect(Null, DOMRect(0, 0, 0, 0))

offsetModifier(options, args) ==
  LET width == IF args.overlayRect.id = Null THEN 0 ELSE args.overlayRect.width
      height == IF args.overlayRect.id = Null THEN 0 ELSE args.overlayRect.height
  IN [x |-> args.position.x + resolveOffset(options.x, width),
      y |-> args.position.y + resolveOffset(options.y, height)]

\* a modifier the page wrote itself: the position snapped to a grid of 2
gridModifier(args) ==
  [x |-> args.position.x - (args.position.x % 2), y |-> args.position.y]

\* calling one modifier of the list
applyModifier(m, args) ==
  IF m.kind = "grid" THEN gridModifier(args) ELSE offsetModifier(m, args)

\* variant: every modifier is given the position the composite was called with
RECURSIVE modifierCalls_firstPosition(_, _, _)
modifierCalls_firstPosition(mods, args, position) ==
  IF mods = <<>> THEN <<>>
  ELSE LET received == [args EXCEPT !.position = position]
       IN <<[modifier |-> Head(mods), args |-> received,
             result |-> applyModifier(Head(mods), received)]>>
            \o modifierCalls_firstPosition(Tail(mods), args, position)

\* modifiers.reduce(...): the calls made, each with {...args, position} where
\* position is what the previous call returned
RECURSIVE modifierCalls(_, _, _)
modifierCalls(mods, args, position) ==
  IF mods = <<>> THEN <<>>
  ELSE LET received == [args EXCEPT !.position = position]
           out == applyModifier(Head(mods), received)
       IN <<[modifier |-> Head(mods), args |-> received, result |-> out]>>
            \o modifierCalls(Tail(mods), args, out)

reduceModifiers(mods, args, position) ==
  LET calls == modifierCalls(mods, args, position)
  IN IF calls = <<>> THEN position ELSE calls[Len(calls)].result

makeModifiers(mods, args) ==
  IF Len(mods) = 0 THEN args.position
  ELSE reduceModifiers(mods, args, args.position)

modifier(args) == makeModifiers(Modifiers, args)

\* ------------------------------------------------------------------ state
VARIABLES
  refCounter,      \* module-level counter behind internalId
  models,          \* internalId -> the model object's cells
  dragCache,       \* Map id -> drag model
  dropCache,       \* Map id -> drop model
  dragListeners,   \* WeakMap drag model -> listeners (its key set)
  dropListeners,   \* WeakMap drop model -> listeners (its key set)
  dragMap,         \* registry: element -> drag id
  dropMap,         \* registry: element -> drop id
  containerToIds,  \* scrollParentCache: container -> ids below it
  elementToParents,\* scrollParentCache: element -> its containers
  positions,       \* scrollTracker: container -> last snapshot
  pendingDeltas,   \* scrollBatcher: Map container -> pending delta
  rafId,           \* scrollBatcher: scheduled frame callback
  enqueued,        \* the addDelta calls since the batch was last emptied, in order
  dragging,        \* session cell
  dropping,        \* session cell
  pointer,         \* session cell
  overlay,         \* [node, position, rect]
  effectPending,   \* mainEffect has a changed dependency and will re-run
  rafSubscribed,   \* mainEffect read rAF() in its last run
  connected,       \* elements attached to the document (isConnected)
  scrollOffset,    \* current scroll offset of every container
  pageOps,         \* changes the page has made since its first render
  trace,           \* what the last handler / effect run called, in order
  passes,          \* collision passes since the last frame tick or change of dragging
  worlds           \* the engines of the compared pages that are not the one above

cacheVars == <<refCounter, models, dragCache, dropCache, dragListeners, dropListeners>>
registryVars == <<dragMap, dropMap, containerToIds, elementToParents>>
scrollVars == <<positions, pendingDeltas, rafId, enqueued>>
sessionVars == <<dragging, dropping, pointer, overlay>>
effectVars == <<effectPending, rafSubscribed>>
domVars == <<connected, scrollOffset, pageOps>>
historyVars == <<trace, passes>>
engineVars == <<cacheVars, registryVars, scrollVars, sessionVars, effectVars, domVars,
                historyVars>>
vars == <<engineVars, worlds>>

\* the engines compared: engine "b" on a page of its own ("alone"), and the
\* same engine on a page that also has engine "a"; one page has one module
\* scope and so one refCounter
Engines == {"alone", "a", "b"}
PageOf(e) == IF e = "alone" THEN 1 ELSE 2
Successor(e) == CASE e = "alone" -> "a" [] e = "a" -> "b" [] OTHER -> "alone"

\* everything reatomDnd() keeps in its closure, with the budget of its page
Packed ==
  [models |-> models, dragCache |-> dragCache, dropCache |-> dropCache,
   dragListeners |-> dragListeners, dropListeners |-> dropListeners,
   dragMap |-> dragMap, dropMap |-> dropMap, containerToIds |-> containerToIds,
   elementToParents |-> elementToParents, positions |-> positions,
   pendingDeltas |-> pendingDeltas, rafId |-> rafId, enqueued |-> enqueued,
   dragging |-> dragging, dropping |-> dropping, pointer |-> pointer,
   overlay |-> overlay, effectPending |-> effectPending,
   rafSubscribed |-> rafSubscribed, pageOps |-> pageOps, trace |-> trace,
   passes |-> passes]

\* an input of the compared pages: a change a page makes to one engine, or a
\* sensor event, which every engine on every page receives
Input(op, to, target, position, id) ==
  [op |-> op, to |-> to, target |-> target, position |-> position, id |-> id]
NoInput == Input("none", "all", Null, [x |-> 0, y |-> 0], NoId)

\* what an engine did with the current input
NoOutcome == [did |-> FALSE, emitted |-> <<>>]

NoRaf == 0
NoPosition == [top |-> -1, left |-> -1]   \* positions.get(target) === undefined

\* ---------------------------------------------------------------- registry
\* if (id): undefined and the empty string are both falsy
truthy(id) == id # NoId /\ id # ""

RECURSIVE findAncestorDragIdIn(_, _)
findAncestorDragIdIn(map, current) ==
  IF current = Null THEN NoId
  ELSE IF truthy(map[current]) THEN map[current]
  ELSE findAncestorDragIdIn(map, parentElement(current))

findAncestorDragId(target) == findAncestorDragIdIn(dragMap, target)

isValidDropNode(node, id) ==
  node # Null /\ node \in connected /\ dropMap[node] = id

registerNode(map, el, id) == [map EXCEPT ![el] = id]

\* variant: the association is removed whatever id it holds
unregisterNode_unconditional(map, el, id) == [map EXCEPT ![el] = NoId]

unregisterNode(map, el, id) == IF map[el] = id THEN [map EXCEPT ![el] = NoId] ELSE map

\* ------------------------------------------------------------------ scroll
RECURSIVE scrollableFrom(_)
scrollableFrom(current) ==
  IF current = Null THEN <<>>
  ELSE (IF isScrollable(current) THEN <<current>> ELSE <<>>)
         \o scrollableFrom(parentElement(current))

getScrollableParents(element) == scrollableFrom(parentElement(element))

SeqToSet(s) == {s[i] : i \in 1..Len(s)}

\* scrollParentCache.register / unregister, on the pair of its two maps
cacheRegister(c2i, e2p, element, id) ==
  LET parents == <<Document>> \o getScrollableParents(element)
  IN [c2i |-> [c \in Containers |->
                 IF c \in SeqToSet(parents) THEN c2i[c] \cup {id} ELSE c2i[c]],
      e2p |-> [e2p EXCEPT ![element] = parents]]

cacheUnregister(c2i, e2p, element, id) ==
  LET parents == e2p[element]
  IN IF parents = <<>> THEN [c2i |-> c2i, e2p |-> e2p]
     ELSE [c2i |-> [c \in Containers |->
                      IF c \in SeqToSet(parents) THEN c2i[c] \ {id} ELSE c2i[c]],
           e2p |-> [e2p EXCEPT ![element] = <<>>]]

\* scrollTracker.getDelta: the delta against the snapshot (none: zero)
getDelta(target, currentTop, currentLeft) ==
  LET prev == positions[target]
  IN IF prev = NoPosition THEN [deltaX |-> 0, deltaY |-> 0]
     ELSE [deltaX |-> currentLeft - prev.left, deltaY |-> currentTop - prev.top]

\* initScrollTracker: snapshot the document and the target's scrollable ancestors
initScrollTracker(element) ==
  LET scrollables == SeqToSet(getScrollableParents(element))
  IN [c \in Containers |->
        IF c = Document \/ c \in scrollables THEN scrollOffset[c] ELSE positions[c]]

\* variant: a later delta for the same container replaces the pending one
addDelta_overwrite(pending, container, deltaX, deltaY, isDocument) ==
  MapSet(pending, container,
         [deltaX |-> deltaX, deltaY |-> deltaY,
          container |-> container, isDocument |-> isDocument])

\* scrollBatcher.addDelta on the pending map
addDelta(pending, container, deltaX, deltaY, isDocument) ==
  IF MapHas(pending, container)
  THEN LET existing == MapGet(pending, container, Null)
       IN MapSet(pending, container,
                 [existing EXCEPT !.deltaX = @ + deltaX, !.deltaY = @ + deltaY])
  ELSE MapSet(pending, container,
              [deltaX |-> deltaX, deltaY |-> deltaY,
               container |-> container, isDocument |-> isDocument])

\* variant: every hit-testable drop model follows every scroll
applyScrollDelta_everyDrop(ms, d) ==
  LET affectedIds == containerToIds[d.container]
      dropModels == SeqToSet(MapValues(dropCache))
  IN [m \in DOMAIN ms |->
        IF \/ /\ dragging # NoModel
              /\ m = dragging
              /\ (d.isDocument \/ m.id \in affectedIds)
           \/ /\ m \in dropModels
              /\ ms[m].node # Null
              /\ isValidDropNode(ms[m].node, m.id)
              /\ ~ms[m].disabled
        THEN [ms[m] EXCEPT !.rect = updateWithOffset(@, d.deltaX, d.deltaY)]
        ELSE ms[m]]

\* one iteration of applyScrollDeltas' outer loop
applyScrollDelta(ms, d) ==
  LET affectedIds == containerToIds[d.container]
      dropModels == SeqToSet(MapValues(dropCache))
  IN [m \in DOMAIN ms |->
        IF \/ /\ dragging # NoModel
              /\ m = dragging
              /\ (d.isDocument \/ m.id \in affectedIds)
           \/ /\ m \in dropModels
              /\ ms[m].node # Null
              /\ isValidDropNode(ms[m].node, m.id)
              /\ ~ms[m].disabled
              /\ (d.isDocument \/ m.id \in affectedIds)
        THEN [ms[m] EXCEPT !.rect = updateWithOffset(@, d.deltaX, d.deltaY)]
        ELSE ms[m]]

RECURSIVE applyScrollDeltas(_, _)
applyScrollDeltas(ms, deltas) ==
  IF deltas = <<>> THEN ms
  ELSE applyScrollDeltas(applyScrollDelta(ms, Head(deltas)), Tail(deltas))

\* the batcher's flush: apply what is pending, then forget it
flushModels == applyScrollDeltas(models, MapValues(pendingDeltas))

\* ------------------------------------------------------------------ layout
\* the page's layout boxes (page coordinates)
LayoutBox(n) ==
  CASE n = "todoEl" -> DOMRect(0, 0, 1, 1)
    [] n = "doneEl" -> DOMRect(1, 0, 1, 1)
    [] OTHER -> DOMRect(0, 0, 1, 1)

\* the overlay element's intrinsic size
OverlayBox == DOMRect(0, 0, 2, 1)

RECURSIVE scrolledBy(_)
scrolledBy(current) ==
  IF current = Null THEN scrollOffset[Document].left
  ELSE (IF isScrollable(current) THEN scrollOffset[current].left ELSE 0)
         + scrolledBy(parentElement(current))

getBoundingClientRect(n) ==
  LET box == LayoutBox(n)
  IN DOMRect(box.x - scrolledBy(parentElement(n)), box.y, box.width, box.height)
\* ------------------------------------------------------------------- trace
\* one entry per call a handler makes to consumer code or to the strategy;
\* seenDragging / seenDropping are the cells as a callback running at that
\* moment reads them
\* the events of a drop model's emitter; the others are a drag model's
DropEvents == {"onDrop", "onDropEnter", "onDropLeave"}

\* the model whose listeners object an emission goes through
Emitter(ev, drag, drop) == IF ev \in DropEvents THEN drop ELSE drag

\* emitter.emit(type, ...): every handler in the array kept for the type is
\* called, in subscription order
emit(handlers, ev) ==
  LET of == SelectSeq(handlers, LAMBDA h : h.ev = ev)
  IN [i \in 1..Len(of) |-> of[i].cb]

Emit(ev, to, drag, drop, delivered, seenDragging, seenDropping) ==
  [ev |-> ev, to |-> to, drag |-> drag, drop |-> drop, delivered |-> delivered,
   seenDragging |-> seenDragging, seenDropping |-> seenDropping, rects |-> <<>>,
   target |-> Null, deltas |-> <<>>,
   invoked |-> IF to = "model" /\ delivered
               THEN emit(models[Emitter(ev, drag, drop)].handlers, ev)
               ELSE <<>>]

\* the sensor event whose handler ran, with the cells and the batch as it found them
Handled(ev, target) ==
  [Emit(ev, "handler", NoModel, NoModel, FALSE, dragging, dropping)
     EXCEPT !.target = target, !.deltas = MapValues(pendingDeltas)]

StrategyCall(rects) ==
  [ev |-> "intersectionStrategy", to |-> "strategy", drag |-> dragging,
   drop |-> NoModel, delivered |-> TRUE, seenDragging |-> dragging,
   seenDropping |-> dropping, rects |-> rects, target |-> Null, deltas |-> <<>>,
   invoked |-> <<>>]

\* the batcher handing its pending deltas to applyScrollDeltas (onApply)
ApplyCall(deltas) ==
  [Emit("applyScrollDeltas", "batcher", NoModel, NoModel, TRUE, dragging, dropping)
     EXCEPT !.deltas = deltas]

\* flush(): nothing is handed over when nothing is pending
flushCalls == IF pendingDeltas = <<>> THEN <<>> ELSE <<ApplyCall(MapValues(pendingDeltas))>>

\* variant: the pointer cell is read as a dependency too
mainEffectTracks_pointer == {"dragging", "rAF", "pointer"}

\* the cells mainEffect reads as dependencies; everything else it reads with peek
mainEffectTracks == {"dragging", "rAF"}

\* a write to the dragging cell: mainEffect tracks it
setDragging(value) ==
  /\ dragging' = value
  /\ effectPending' = (effectPending \/ ("dragging" \in mainEffectTracks /\ value # dragging))
  /\ passes' = IF value # dragging THEN 0 ELSE passes

\* the engine's page has rendered: its factories have been called
rendered == DOMAIN models # {}

\* one change by the page or the UI layer after the first render
\* a scroll of the page or of a container
scrollOp ==
  /\ rendered
  /\ pageOps < MaxScrollOps
  /\ pageOps' = pageOps + 1

subscribeOp ==
  /\ rendered
  /\ pageOps < MaxSubscribeOps
  /\ pageOps' = pageOps + 1

pageOp ==
  /\ rendered
  /\ pageOps < MaxPageOps
  /\ pageOps' = pageOps + 1

\* one change by a page that renders again while sessions run
renderOp ==
  /\ rendered
  /\ pageOps < MaxRenderOps
  /\ pageOps' = pageOps + 1

\* -------------------------------------------------------------------- Init
Init ==
  /\ refCounter = 0
  /\ models = <<>>
  /\ dragCache = <<>>
  /\ dropCache = <<>>
  /\ dragListeners = {}
  /\ dropListeners = {}
  /\ dragMap = [n \in Nodes |-> NoId]
  /\ dropMap = [n \in Nodes |-> NoId]
  /\ containerToIds = [c \in Containers |-> {}]
  /\ elementToParents = [n \in Nodes |-> <<>>]
  /\ positions = [c \in Containers |-> NoPosition]
  /\ pendingDeltas = <<>>
  /\ enqueued = <<>>
  /\ rafId = NoRaf
  /\ dragging = NoModel
  /\ dropping = NoModel
  /\ pointer = [x |-> 0, y |-> 0]
  /\ overlay = [node |-> Null, position |-> [x |-> 0, y |-> 0],
                rect |-> makeRect("overlay", DOMRect(0, 0, 0, 0))]
  /\ effectPending = FALSE
  /\ rafSubscribed = FALSE
  /\ connected = Nodes
  /\ scrollOffset = [c \in Containers |-> [top |-> 0, left |-> 0]]
  /\ pageOps = 0
  /\ trace = <<>>
  /\ passes = 0
  /\ worlds = [focus |-> "alone", parked |-> [e \in Engines |-> Packed], counter |-> 0,
               input |-> NoInput, handled |-> FALSE,
               outcome |-> [e \in Engines |-> NoOutcome]]

\* ------------------------------------------------- factories and disposal
\* variant: dispose() deletes whatever instance the cache holds under the id
disposeFrom_anyInstance(cache, m) ==
  IF MapHas(cache, m.id) THEN MapDelete(cache, m.id) ELSE cache

\* model.dispose() on the cache map of the model's type
disposeFrom(cache, m) ==
  IF /\ MapHas(cache, m.id)
     /\ models[MapGet(cache, m.id, NoModel)].internalId = models[m].internalId
  THEN MapDelete(cache, m.id)
  ELSE cache

\* variant: dispose() leaves the listeners object in the WeakMap
listenersDelete_kept(listeners, m) == listeners

\* dragListeners.delete(model) / dropListeners.delete(model)
listenersDelete(listeners, m) == listeners \ {m}

\* listeners.get(model)?.clear(): emitter.all.clear() on the listeners object
\* the WeakMap still holds for the model
clear(listeners, m) ==
  IF m \in listeners THEN [models EXCEPT ![m].handlers = <<>>] ELSE models

\* the object a factory call creates
newRef(type, id) ==
  [type |-> type, id |-> id,
   gen |-> Cardinality({m \in DOMAIN models : m.type = type /\ m.id = id})]

\* variant: a new instance always starts without a node
newModel_freshNode(type, id, cache) ==
  [node |-> Null,
   disabled |-> FALSE,
   rect |-> makeRect(id, DOMRect(0, 0, 0, 0)),
   handlers |-> <<>>,
   activatorNode |-> Null,
   internalId |-> refCounter]

newModel(type, id, cache) ==
  [node |-> IF cache # NoModel THEN models[cache].node ELSE Null,
   disabled |-> FALSE,
   rect |-> makeRect(id, DOMRect(0, 0, 0, 0)),
   handlers |-> <<>>,
   activatorNode |-> Null,
   internalId |-> refCounter]

draggable(id) ==
  /\ LET internalId == newRef("drag", id)
         cache == MapGet(dragCache, id, NoModel)
         disposed == IF cache # NoModel THEN disposeFrom(dragCache, cache) ELSE dragCache
     IN /\ refCounter' = refCounter + 1
        /\ models' = (internalId :> newModel("drag", id, cache))
                      @@ (IF cache # NoModel THEN clear(dragListeners, cache) ELSE models)
        /\ dragCache' = MapSet(disposed, id, internalId)
        /\ dragListeners' = (IF cache # NoModel THEN listenersDelete(dragListeners, cache)
                             ELSE dragListeners) \cup {internalId}
  /\ trace' = <<>>
  /\ UNCHANGED <<dropCache, dropListeners, registryVars, scrollVars, sessionVars,
                 effectVars, connected, scrollOffset, passes>>

droppable(id) ==
  /\ LET internalId == newRef("drop", id)
         cache == MapGet(dropCache, id, NoModel)
         disposed == IF cache # NoModel THEN disposeFrom(dropCache, cache) ELSE dropCache
     IN /\ refCounter' = refCounter + 1
        /\ models' = (internalId :> newModel("drop", id, cache))
                      @@ (IF cache # NoModel THEN clear(dropListeners, cache) ELSE models)
        /\ dropCache' = MapSet(disposed, id, internalId)
        /\ dropListeners' = (IF cache # NoModel THEN listenersDelete(dropListeners, cache)
                             ELSE dropListeners) \cup {internalId}
  /\ trace' = <<>>
  /\ UNCHANGED <<dragCache, dragListeners, registryVars, scrollVars, sessionVars,
                 effectVars, connected, scrollOffset, passes>>

dispose(m) ==
  /\ m \in DOMAIN models
  /\ IF m.type = "drag"
     THEN /\ models' = clear(dragListeners, m)
          /\ dragListeners' = listenersDelete(dragListeners, m)
          /\ dragCache' = disposeFrom(dragCache, m)
          /\ UNCHANGED <<dropListeners, dropCache>>
     ELSE /\ models' = clear(dropListeners, m)
          /\ dropListeners' = listenersDelete(dropListeners, m)
          /\ dropCache' = disposeFrom(dropCache, m)
          /\ UNCHANGED <<dragListeners, dragCache>>
  /\ trace' = <<>>
  /\ UNCHANGED <<refCounter, registryVars, scrollVars, sessionVars,
                 effectVars, connected, scrollOffset, passes>>

\* ------------------------------------------------------- the UI binding
\* the page's first render (useDraggable / useDroppable): the factory calls,
\* then every model's node cell is given its element
\* overlay.node.set(n): the overlay element is measured where it is rendered
overlayWithNode(n) ==
  [overlay EXCEPT
     !.node = n,
     !.rect = IF n # Null
              THEN update(@, DOMRect(overlay.position.x, overlay.position.y,
                                     OverlayBox.width, OverlayBox.height))
              ELSE @]

\* the subscriptions the hooks make for the callbacks the page passes them
HookHandlers(type) ==
  IF type = "drag"
  THEN <<[ev |-> "onDragStart", cb |-> "hook"], [ev |-> "onDragEnd", cb |-> "hook"],
         [ev |-> "onDragCancel", cb |-> "hook"]>>
  ELSE <<[ev |-> "onDrop", cb |-> "hook"], [ev |-> "onDropEnter", cb |-> "hook"],
         [ev |-> "onDropLeave", cb |-> "hook"]>>

\* the first render: one draggable card, two droppable columns and the overlay
FirstRender == <<[type |-> "drag", id |-> "card"],
                 [type |-> "drop", id |-> "todo"],
                 [type |-> "drop", id |-> "done"]>>

RECURSIVE registerAll(_, _, _)
registerAll(spc, entries, elements) ==
  IF entries = <<>> THEN spc
  ELSE registerAll(cacheRegister(spc.c2i, spc.e2p, elements[Head(entries).id],
                                 Head(entries).id),
                   Tail(entries), elements)

\* the first render of a page whose hooks are given `entries`, each model's
\* node ref attached to elements[id]
mountPage(entries, elements) ==
  /\ ~rendered
  /\ LET refs == [i \in 1..Len(entries) |->
                   [type |-> entries[i].type, id |-> entries[i].id, gen |-> 0]]
         ofType(t) == SelectSeq(refs, LAMBDA m : m.type = t)
         asMap(rs) == [i \in 1..Len(rs) |-> [key |-> rs[i].id, value |-> rs[i]]]
         spc == registerAll([c2i |-> containerToIds, e2p |-> elementToParents], entries,
                            elements)
     IN /\ refCounter' = refCounter + Len(entries)
        /\ models' = [m \in SeqToSet(refs) |->
                        [newModel(m.type, m.id, NoModel)
                           EXCEPT !.node = elements[m.id],
                                  !.handlers = HookHandlers(m.type),
                                  !.internalId =
                                     refCounter + (CHOOSE i \in 1..Len(refs) : refs[i] = m) - 1]]
        /\ dragCache' = asMap(ofType("drag"))
        /\ dropCache' = asMap(ofType("drop"))
        /\ dragListeners' = SeqToSet(ofType("drag"))
        /\ dropListeners' = SeqToSet(ofType("drop"))
        /\ dragMap' = [n \in Nodes |->
                         IF \E m \in SeqToSet(ofType("drag")) : elements[m.id] = n
                         THEN (CHOOSE m \in SeqToSet(ofType("drag")) : elements[m.id] = n).id
                         ELSE dragMap[n]]
        /\ dropMap' = [n \in Nodes |->
                         IF \E m \in SeqToSet(ofType("drop")) : elements[m.id] = n
                         THEN (CHOOSE m \in SeqToSet(ofType("drop")) : elements[m.id] = n).id
                         ELSE dropMap[n]]
        /\ containerToIds' = spc.c2i
        /\ elementToParents' = spc.e2p
  /\ overlay' = overlayWithNode(OverlayEl)
  /\ trace' = <<>>
  /\ UNCHANGED <<scrollVars, dragging, dropping, pointer, effectVars, domVars, passes>>

mount == mountPage(FirstRender, [id \in Ids |-> ElementOf(id)])

\* model.node.set(n) with its change hook
setNode(m, n) ==
  /\ m \in DOMAIN models
  /\ n # models[m].node
  /\ LET id == m.id
         prev == models[m].node
         isDrag == m.type = "drag"
         map0 == IF isDrag THEN dragMap ELSE dropMap
         map1 == IF prev # Null THEN unregisterNode(map0, prev, id) ELSE map0
         map2 == IF n # Null THEN registerNode(map1, n, id) ELSE map1
         spc0 == [c2i |-> containerToIds, e2p |-> elementToParents]
         spc1 == IF prev # Null THEN cacheUnregister(spc0.c2i, spc0.e2p, prev, id) ELSE spc0
         spc2 == IF n # Null THEN cacheRegister(spc1.c2i, spc1.e2p, n, id) ELSE spc1
     IN /\ models' = [models EXCEPT ![m].node = n]
        /\ dragMap' = IF isDrag THEN map2 ELSE dragMap
        /\ dropMap' = IF isDrag THEN dropMap ELSE map2
        /\ containerToIds' = spc2.c2i
        /\ elementToParents' = spc2.e2p
  /\ trace' = <<>>
  /\ UNCHANGED <<refCounter, dragCache, dropCache, dragListeners, dropListeners,
                 scrollVars, sessionVars, effectVars, connected, scrollOffset, passes>>

\* the elements the page uses as drag handles
Activators == {"handle"}

\* dragModel.activatorNode.set(n), with the cell's change hook
setActivatorNode(m, n) ==
  /\ m \in DOMAIN models
  /\ m.type = "drag"
  /\ n # models[m].activatorNode
  /\ LET id == m.id
         prev == models[m].activatorNode
         map1 == IF prev # Null THEN unregisterNode(dragMap, prev, id) ELSE dragMap
         map2 == IF n # Null THEN registerNode(map1, n, id) ELSE map1
     IN /\ models' = [models EXCEPT ![m].activatorNode = n]
        /\ dragMap' = map2
  /\ trace' = <<>>
  /\ UNCHANGED <<refCounter, dragCache, dropCache, dragListeners, dropListeners, dropMap,
                 containerToIds, elementToParents, scrollVars, sessionVars, effectVars,
                 connected, scrollOffset, passes>>

\* model.disabled.set(b)
setDisabled(m, b) ==
  /\ m \in DOMAIN models
  /\ b # models[m].disabled
  /\ models' = [models EXCEPT ![m].disabled = b]
  /\ trace' = <<>>
  /\ UNCHANGED <<refCounter, dragCache, dropCache, dragListeners, dropListeners,
                 registryVars, scrollVars, sessionVars, effectVars, connected, scrollOffset, passes>>

\* overlay.node.set(n) with its change hook
setOverlayNode(n) ==
  /\ n # overlay.node
  /\ overlay' = overlayWithNode(n)
  /\ trace' = <<>>
  /\ UNCHANGED <<cacheVars, registryVars, scrollVars, dragging, dropping, pointer,
                 effectVars, connected, scrollOffset, passes>>

\* the page attaches / detaches an element
setConnected(n, b) ==
  /\ b # (n \in connected)
  /\ connected' = IF b THEN connected \cup {n} ELSE connected \ {n}
  /\ trace' = <<>>
  /\ UNCHANGED <<cacheVars, registryVars, scrollVars, sessionVars, effectVars,
                 scrollOffset, passes>>
\* ------------------------------------------------------- sensor handlers
\* variant: the disabled flag of the resolved model is not consulted
findTargetModel_ignoresDisabled(target) ==
  LET id == findAncestorDragId(target)
  IN IF id # NoId THEN MapGet(dragCache, id, NoModel) ELSE NoModel

findTargetModel(target) ==
  LET id == findAncestorDragId(target)
      model == IF id # NoId THEN MapGet(dragCache, id, NoModel) ELSE NoModel
  IN IF model # NoModel /\ ~models[model].disabled THEN model ELSE NoModel

\* variant: a disabled drop model still takes part
isActiveDrop_ignoresDisabled(ms, m) ==
  /\ ms[m].node # Null
  /\ isValidDropNode(ms[m].node, m.id)

\* the drop models that take part in hit-testing, in cache order
isActiveDrop(ms, m) ==
  /\ ms[m].node # Null
  /\ isValidDropNode(ms[m].node, m.id)
  /\ ~ms[m].disabled

\* updatePosition: the overlay position from the pointer through the modifiers
updatePosition(pointerPos, dragRect, dropRect) ==
  modifier([position |-> pointerPos, overlayRect |-> overlay.rect,
            draggingRect |-> dragRect, droppingRect |-> dropRect])

\* variant: the listeners are called before dragging.set(model)
dragStartCalls_beforeSet(model) ==
  <<Emit("onDragStart", "model", model, NoModel, model \in dragListeners, dragging, dropping),
    Emit("onDragStart", "engine", model, NoModel, TRUE, dragging, dropping)>>

\* dragging.set(model), then the model's listeners, then the engine callback
dragStartCalls(model) ==
  <<Emit("onDragStart", "model", model, NoModel, model \in dragListeners, model, dropping),
    Emit("onDragStart", "engine", model, NoModel, TRUE, model, dropping)>>

onDragStart(target, position) ==
  LET model == findTargetModel(target)
      dropModels == SeqToSet(MapValues(dropCache))
  IN IF model = NoModel
     THEN /\ trace' = <<Handled("onDragStart", target)>>
          /\ UNCHANGED <<cacheVars, registryVars, scrollVars, sessionVars, effectVars,
                         domVars, passes>>
     ELSE /\ pointer' = position
          /\ positions' = initScrollTracker(target)
          /\ models' = [m \in DOMAIN models |->
                          IF m \in dropModels /\ isActiveDrop(models, m)
                          THEN [models[m] EXCEPT
                                  !.rect = update(@, getBoundingClientRect(models[m].node))]
                          ELSE models[m]]
          /\ overlay' = [overlay EXCEPT
                           !.position = updatePosition(position, models[model].rect, Null)]
          /\ setDragging(model)
          /\ trace' = <<Handled("onDragStart", target)>> \o dragStartCalls(model)
          /\ UNCHANGED <<refCounter, dragCache, dropCache, dragListeners, dropListeners,
                         registryVars, pendingDeltas, rafId, enqueued, dropping,
                         rafSubscribed, domVars>>

\* variant: the drop block runs before the drag-end block
dragEndCalls_dropFirst(dragModel, dropModel) ==
  (IF dragModel # NoModel /\ dropModel # NoModel
   THEN <<Emit("onDrop", "model", dragModel, dropModel,
               dropModel \in dropListeners, dragging, dropping),
          Emit("onDrop", "engine", dragModel, dropModel, TRUE, dragging, dropping)>>
   ELSE <<>>)
  \o (IF dragModel # NoModel
      THEN <<Emit("onDragEnd", "model", dragModel, NoModel,
                  dragModel \in dragListeners, dragging, dropping),
             Emit("onDragEnd", "engine", dragModel, NoModel, TRUE, dragging, dropping)>>
      ELSE <<>>)

\* variant: both cells are reset before any listener is called
dragEndCalls_resetFirst(dragModel, dropModel) ==
  (IF dragModel # NoModel
   THEN <<Emit("onDragEnd", "model", dragModel, NoModel,
               dragModel \in dragListeners, NoModel, NoModel),
          Emit("onDragEnd", "engine", dragModel, NoModel, TRUE, NoModel, NoModel)>>
   ELSE <<>>)
  \o (IF dragModel # NoModel /\ dropModel # NoModel
      THEN <<Emit("onDrop", "model", dragModel, dropModel,
                  dropModel \in dropListeners, NoModel, NoModel),
             Emit("onDrop", "engine", dragModel, dropModel, TRUE, NoModel, NoModel)>>
      ELSE <<>>)

\* the two blocks of the drag-end handler: what they call, and with which cells
dragEndCalls(dragModel, dropModel) ==
  LET afterDragEnd == IF dragModel # NoModel THEN NoModel ELSE dragging
  IN (IF dragModel # NoModel
      THEN <<Emit("onDragEnd", "model", dragModel, NoModel,
                  dragModel \in dragListeners, dragging, dropping),
             Emit("onDragEnd", "engine", dragModel, NoModel, TRUE, dragging, dropping)>>
      ELSE <<>>)
     \o (IF dragModel # NoModel /\ dropModel # NoModel
         THEN <<Emit("onDrop", "model", dragModel, dropModel,
                     dropModel \in dropListeners, afterDragEnd, dropping),
                Emit("onDrop", "engine", dragModel, dropModel, TRUE, afterDragEnd, dropping)>>
         ELSE <<>>)

\* variant: the drag-end handler leaves the dropping cell alone
dragEndDropping_kept(dragModel, dropModel) == dropping

\* the dropping cell when the drag-end handler returns
dragEndDropping(dragModel, dropModel) ==
  IF dragModel # NoModel /\ dropModel # NoModel THEN NoModel ELSE dropping

\* variant: the batch is flushed after the listeners were called
dragEndTrace_flushLast(dragModel, dropModel) ==
  dragEndCalls(dragModel, dropModel) \o flushCalls

\* the drag-end handler: scrollBatcher.flush() first, then the two blocks
dragEndTrace(dragModel, dropModel) ==
  flushCalls \o dragEndCalls(dragModel, dropModel)

onDragEnd ==
  LET dragModel == dragging
      dropModel == dropping
      afterDragEnd == IF dragModel # NoModel THEN NoModel ELSE dragging
  IN \* scrollBatcher.flush()
     /\ rafId' = NoRaf
     /\ models' = flushModels
     /\ pendingDeltas' = <<>>
     /\ enqueued' = <<>>
     /\ setDragging(afterDragEnd)
     /\ dropping' = dragEndDropping(dragModel, dropModel)
     /\ trace' = <<Handled("onDragEnd", Null)>> \o dragEndTrace(dragModel, dropModel)
     /\ UNCHANGED <<refCounter, dragCache, dropCache, dragListeners, dropListeners,
                    registryVars, positions, pointer, overlay, rafSubscribed, domVars>>

onMovePointer(position) ==
  /\ pointer' = IF dragging = NoModel THEN pointer ELSE position
  /\ effectPending' = (effectPending \/ ("pointer" \in mainEffectTracks /\ pointer' # pointer))
  /\ trace' = <<Handled("onMovePointer", Null)>>
  /\ UNCHANGED <<cacheVars, registryVars, scrollVars, dragging, dropping, overlay,
                 rafSubscribed, domVars, passes>>

\* variant: cancelling also tells the active drop model that the drag left it
cancelCalls_withLeave(dragModel) ==
  IF dragModel # NoModel
  THEN <<Emit("onDragCancel", "model", dragModel, NoModel,
              dragModel \in dragListeners, dragging, dropping),
         Emit("onDragCancel", "engine", dragModel, NoModel, TRUE, dragging, dropping)>>
       \o (IF dropping # NoModel
           THEN <<Emit("onDropLeave", "engine", dragModel, dropping, TRUE, dragging, dropping)>>
           ELSE <<>>)
  ELSE <<>>

\* variant: the engine callback is called whether or not something is dragged
cancelCalls_always(dragModel) ==
  (IF dragModel # NoModel
   THEN <<Emit("onDragCancel", "model", dragModel, NoModel,
               dragModel \in dragListeners, dragging, dropping)>>
   ELSE <<>>)
  \o <<Emit("onDragCancel", "engine", dragModel, NoModel, TRUE, dragging, dropping)>>

\* what the cancel handler calls
cancelCalls(dragModel) ==
  IF dragModel # NoModel
  THEN <<Emit("onDragCancel", "model", dragModel, NoModel,
              dragModel \in dragListeners, dragging, dropping),
         Emit("onDragCancel", "engine", dragModel, NoModel, TRUE, dragging, dropping)>>
  ELSE <<>>

\* variant: cancelling applies the pending deltas like a flush
clearModels_flushed == flushModels

\* the batcher's clear: what is pending is forgotten, the rects stay
clearModels == models

onCancel ==
  LET dragModel == dragging
  IN \* scrollBatcher.clear()
     /\ rafId' = NoRaf
     /\ pendingDeltas' = <<>>
     /\ enqueued' = <<>>
     /\ setDragging(NoModel)
     /\ dropping' = NoModel
     /\ models' = clearModels
     /\ trace' = <<Handled("onCancel", Null)>> \o cancelCalls(dragModel)
     /\ UNCHANGED <<refCounter, dragCache, dropCache, dragListeners, dropListeners,
                    registryVars, positions, pointer, overlay, rafSubscribed, domVars>>

\* a container scrolls to `left` and the document-level scroll listener runs
onScroll(target, left) ==
  /\ left >= 0
  /\ left # scrollOffset[target].left
  /\ scrollOffset' = [scrollOffset EXCEPT ![target].left = left]
  /\ IF dragging = NoModel
     THEN UNCHANGED scrollVars
     ELSE LET isDocument == target = Document
              currentTop == scrollOffset[target].top
              delta == getDelta(target, currentTop, left)
          IN /\ positions' = [positions EXCEPT ![target] = [top |-> currentTop, left |-> left]]
             /\ IF delta.deltaX # 0 \/ delta.deltaY # 0
                THEN /\ pendingDeltas' = addDelta(pendingDeltas, target, delta.deltaX,
                                                  delta.deltaY, isDocument)
                     /\ rafId' = IF rafId = NoRaf THEN 1 ELSE rafId
                     /\ enqueued' = Append(enqueued, [container |-> target,
                                                      deltaX |-> delta.deltaX,
                                                      deltaY |-> delta.deltaY])
                ELSE UNCHANGED <<pendingDeltas, rafId, enqueued>>
  /\ trace' = <<>>
  /\ UNCHANGED <<cacheVars, registryVars, sessionVars, effectVars, connected, passes>>

\* --------------------------------------------------------- frames, effect
\* an animation frame: the batcher's scheduled flush runs and rAF() changes
FrameTick ==
  /\ rafId' = NoRaf
  /\ models' = IF rafId # NoRaf THEN flushModels ELSE models
  /\ pendingDeltas' = IF rafId # NoRaf THEN <<>> ELSE pendingDeltas
  /\ enqueued' = IF rafId # NoRaf THEN <<>> ELSE enqueued
  /\ effectPending' = (effectPending \/ ("rAF" \in mainEffectTracks /\ rafSubscribed))
  /\ passes' = 0
  /\ trace' = IF rafId # NoRaf THEN flushCalls ELSE <<>>
  /\ UNCHANGED <<refCounter, dragCache, dropCache, dragListeners, dropListeners,
                 registryVars, positions, sessionVars, rafSubscribed, domVars>>

\* the rects handed to the strategy: the active drop models' rects, in cache order
activeDropRects ==
  LET active == SelectSeq(MapValues(dropCache), LAMBDA m : isActiveDrop(models, m))
  IN [i \in 1..Len(active) |-> models[active[i]].rect]

\* variant: the enter block runs before the leave block
passCalls_enterFirst(dragModel, dropModel, nextDropModel) ==
  (IF nextDropModel # NoModel /\ nextDropModel # dropModel
   THEN <<Emit("onDropEnter", "model", NoModel, nextDropModel,
               nextDropModel \in dropListeners, dragging, nextDropModel),
          Emit("onDropEnter", "engine", dragModel, nextDropModel, TRUE,
               dragging, nextDropModel)>>
   ELSE <<>>)
  \o (IF dropModel # NoModel /\ dropModel # nextDropModel
      THEN <<Emit("onDropLeave", "model", NoModel, dropModel,
                  dropModel \in dropListeners, dragging, dropping),
             Emit("onDropLeave", "engine", dragModel, dropModel, TRUE, dragging, dropping)>>
      ELSE <<>>)

\* variant: the enter block runs for every hit, also on the model already entered
passCalls_everyHit(dragModel, dropModel, nextDropModel) ==
  (IF dropModel # NoModel /\ dropModel # nextDropModel
   THEN <<Emit("onDropLeave", "model", NoModel, dropModel,
               dropModel \in dropListeners, dragging, dropping),
          Emit("onDropLeave", "engine", dragModel, dropModel, TRUE, dragging, dropping)>>
   ELSE <<>>)
  \o (IF nextDropModel # NoModel
      THEN <<Emit("onDropEnter", "model", NoModel, nextDropModel,
                  nextDropModel \in dropListeners, dragging, nextDropModel),
             Emit("onDropEnter", "engine", dragModel, nextDropModel, TRUE,
                  dragging, nextDropModel)>>
      ELSE <<>>)

\* the leave / enter blocks at the end of a collision pass
passCalls(dragModel, dropModel, nextDropModel) ==
  (IF dropModel # NoModel /\ dropModel # nextDropModel
   THEN <<Emit("onDropLeave", "model", NoModel, dropModel,
               dropModel \in dropListeners, dragging, dropping),
          Emit("onDropLeave", "engine", dragModel, dropModel, TRUE, dragging, dropping)>>
   ELSE <<>>)
  \o (IF nextDropModel # NoModel /\ nextDropModel # dropModel
      THEN <<Emit("onDropEnter", "model", NoModel, nextDropModel,
                  nextDropModel \in dropListeners, dragging, nextDropModel),
             Emit("onDropEnter", "engine", dragModel, nextDropModel, TRUE,
                  dragging, nextDropModel)>>
      ELSE <<>>)

mainEffect ==
  /\ effectPending
  /\ effectPending' = FALSE
  /\ IF dragging = NoModel
     THEN /\ rafSubscribed' = FALSE
          /\ trace' = <<>>
          /\ UNCHANGED <<dropping, overlay, passes>>
     ELSE LET dragModel == dragging
              collisions == intersectionStrategy(
                              [pointer |-> pointer, draggingRect |-> models[dragModel].rect,
                               droppingRects |-> activeDropRects, overlayRect |-> overlay.rect])
              hit == Len(collisions) > 0
              droppingRect == IF hit THEN collisions[1].droppingRect ELSE Null
              nextDropModel == IF hit THEN MapGet(dropCache, droppingRect.id, NoModel)
                               ELSE NoModel
              position == updatePosition(pointer, models[dragModel].rect, droppingRect)
              dropModel == dropping
              enter == nextDropModel # NoModel /\ nextDropModel # dropModel
          IN /\ rafSubscribed' = TRUE
             /\ overlay' = [overlay EXCEPT
                              !.position = position,
                              !.rect = IF overlay.node # Null
                                       THEN rectUpdatePosition(@, position) ELSE @]
             /\ dropping' = IF enter THEN nextDropModel
                            ELSE IF nextDropModel = NoModel THEN NoModel ELSE dropping
             /\ trace' = <<StrategyCall(activeDropRects)>>
                  \o passCalls(dragModel, dropModel, nextDropModel)
             /\ passes' = Min(passes + 1, 2)
  /\ UNCHANGED <<cacheVars, registryVars, scrollVars, dragging, pointer, domVars>>

\* --------------------------------------------------------- subscriptions
\* the events a model of a type lets the page subscribe to
EventsOf(type) ==
  IF type = "drag" THEN {"onDragStart", "onDragEnd", "onDragCancel"} ELSE DropEvents

\* the callbacks the page subscribes itself, next to those of the hooks
Callbacks == {"page"}

\* emitter.off(type, callback): the first subscription of the callback goes
off(handlers, h) ==
  IF \E i \in DOMAIN handlers : handlers[i] = h
  THEN LET at == CHOOSE i \in DOMAIN handlers :
                   handlers[i] = h /\ \A j \in 1..(i - 1) : handlers[j] # h
       IN SubSeq(handlers, 1, at - 1) \o SubSeq(handlers, at + 1, Len(handlers))
  ELSE handlers

\* model.onDragStart(callback), ...: emitter.on(type, callback) on the
\* emitter the model was created with, disposed or not
subscribe(m, ev, cb) ==
  /\ subscribeOp
  /\ m \in DOMAIN models
  /\ ev \in EventsOf(m.type)
  /\ models' = [models EXCEPT ![m].handlers = Append(@, [ev |-> ev, cb |-> cb])]
  /\ trace' = <<>>
  /\ UNCHANGED <<refCounter, dragCache, dropCache, dragListeners, dropListeners,
                 registryVars, scrollVars, sessionVars, effectVars, connected,
                 scrollOffset, passes>>

\* the function a subscription returned is called
unsubscribe(m, ev, cb) ==
  /\ subscribeOp
  /\ m \in DOMAIN models
  /\ [ev |-> ev, cb |-> cb] \in SeqToSet(models[m].handlers)
  /\ models' = [models EXCEPT ![m].handlers = off(@, [ev |-> ev, cb |-> cb])]
  /\ trace' = <<>>
  /\ UNCHANGED <<refCounter, dragCache, dropCache, dragListeners, dropListeners,
                 registryVars, scrollVars, sessionVars, effectVars, connected,
                 scrollOffset, passes>>

\* ------------------------------------------------- the registry by itself
\* the elements and ids the registry's operations are called with directly
RegistryNodes == {"handle", "cardEl", "free"}
RegistryDragIds == {"card", "other", ""}
RegistryDropIds == {"todo"}

\* a call of a registry operation and what it returned
RegistryCall(op, el, id, result) ==
  [ev |-> op, to |-> "registry", el |-> el, id |-> id, result |-> result]

registerDrag(el, id) ==
  /\ dragMap' = registerNode(dragMap, el, id)
  /\ trace' = <<RegistryCall("registerDrag", el, id, NoId)>>
  /\ UNCHANGED <<cacheVars, dropMap, containerToIds, elementToParents,
                 scrollVars, sessionVars, effectVars, domVars, passes>>

registerDrop(el, id) ==
  /\ dropMap' = registerNode(dropMap, el, id)
  /\ trace' = <<RegistryCall("registerDrop", el, id, NoId)>>
  /\ UNCHANGED <<cacheVars, dragMap, containerToIds, elementToParents,
                 scrollVars, sessionVars, effectVars, domVars, passes>>

unregisterDrag(el, id) ==
  /\ dragMap' = unregisterNode(dragMap, el, id)
  /\ trace' = <<RegistryCall("unregisterDrag", el, id, NoId)>>
  /\ UNCHANGED <<cacheVars, dropMap, containerToIds, elementToParents,
                 scrollVars, sessionVars, effectVars, domVars, passes>>

unregisterDrop(el, id) ==
  /\ dropMap' = unregisterNode(dropMap, el, id)
  /\ trace' = <<RegistryCall("unregisterDrop", el, id, NoId)>>
  /\ UNCHANGED <<cacheVars, dragMap, containerToIds, elementToParents,
                 scrollVars, sessionVars, effectVars, domVars, passes>>

\* registry.findAncestorDragId(target), called for its result
findAncestorDragIdCall(target) ==
  /\ trace' = <<RegistryCall("findAncestorDragId", target, NoId, findAncestorDragId(target))>>
  /\ UNCHANGED <<cacheVars, registryVars, scrollVars, sessionVars,
                 effectVars, domVars, passes>>

\* ------------------------------------------------------- construction
\* an option the caller passed, and the options the caller left out
Given(v) == [given |-> TRUE, value |-> v]
OmittedList == [given |-> FALSE, value |-> <<>>]
OmittedStrategy == [given |-> FALSE, value |-> NoId]

\* the values reatomDnd is called with for sensors, intersectionStrategy, modifiers
SensorLists ==
  {OmittedList, Given(<<>>), Given(<<"mouseSensor">>), Given(<<"mouseSensor", "mouseSensor">>)}
Strategies == {OmittedStrategy, Given("rectangleIntersection")}
ModifierLists ==
  {OmittedList, Given(<<>>)}
    \cup {Given(<<[kind |-> "offset", x |-> a, y |-> "start"]>>) : a \in {"start", "center", "end"}}

\* the defaults the option type documents
DefaultOptions ==
  [sensors |-> Given(<<"mouseSensor">>),
   intersectionStrategy |-> Given("rectangleIntersection"),
   modifiers |-> Given(<<>>)]

\* no engine was returned
NoEngine ==
  [sensors |-> OmittedList, intersectionStrategy |-> OmittedStrategy,
   modifiers |-> OmittedList]

\* reatomDnd(options) up to its return: makeSensors only builds closures,
\* makeModifiers reads modifiers.length, and no option is given a default
reatomDnd(options) ==
  IF ~options.modifiers.given
  THEN [result |-> "TypeError", engine |-> NoEngine]
  ELSE [result |-> "engine", engine |-> options]

\* the page calls reatomDnd({name, ...options})
construct(options) ==
  /\ trace' = <<[ev |-> "reatomDnd", to |-> "page", options |-> options,
                 outcome |-> reatomDnd(options)]>>
  /\ UNCHANGED <<cacheVars, registryVars, scrollVars, sessionVars, effectVars, domVars,
                 passes>>

\* the engine the page holds, if the last construction returned one
Constructed ==
  trace # <<>> /\ trace[1].ev = "reatomDnd" /\ trace[1].outcome.result = "engine"

\* sensorEffect's first run: the composite sensor's onDragStart maps over the
\* sensor list
sensorSubscribe ==
  /\ Constructed
  /\ Len(trace) = 1
  /\ LET sensors == trace[1].outcome.engine.sensors
     IN trace' = Append(trace,
                        [ev |-> "sensor.onDragStart", to |-> "sensors",
                         result |-> IF sensors.given THEN "subscribed" ELSE "TypeError",
                         subscriptions |-> IF sensors.given THEN Len(sensors.value) ELSE 0])
  /\ UNCHANGED <<cacheVars, registryVars, scrollVars, sessionVars, effectVars, domVars,
                 passes>>

\* the constructed engine's modifier applied to a pointer position
modifierCall(position) ==
  /\ Constructed
  /\ Len(trace) = 1
  /\ LET args == [position |-> position,
                  overlayRect |-> update(overlay.rect,
                                         DOMRect(0, 0, OverlayBox.width, OverlayBox.height)),
                  draggingRect |-> NoRect, droppingRect |-> NoRect]
     IN trace' = Append(trace,
                        [ev |-> "modifier", to |-> "modifier", position |-> position,
                         result |-> makeModifiers(trace[1].outcome.engine.modifiers.value, args)])
  /\ UNCHANGED <<cacheVars, registryVars, scrollVars, sessionVars, effectVars, domVars,
                 passes>>

\* ------------------------------------------------------ two engines
\* the page of engine "a": a draggable and a droppable on elements of its own
OtherRender == <<[type |-> "drag", id |-> "card"], [type |-> "drop", id |-> "todo"]>>
OtherElementOf == [id \in Ids |-> IF id = "card" THEN "free" ELSE "list"]

mountOther == mountPage(OtherRender, OtherElementOf)

\* the inputs fed to both pages
Inputs ==
  {Input("mount", "b", Null, NoInput.position, NoId),
   Input("mountOther", "a", Null, NoInput.position, NoId),
   Input("onDragEnd", "all", Null, NoInput.position, NoId),
   Input("onCancel", "all", Null, NoInput.position, NoId)}
  \cup {Input(op, to, Null, NoInput.position, "card") :
          op \in {"draggable", "dispose"}, to \in {"a", "b"}}
  \cup {Input("onDragStart", "all", target, NoInput.position, NoId) :
          target \in {"handle", "free"}}

\* the instance the first render made for an id
FirstInstance(id) == [type |-> "drag", id |-> id, gen |-> 0]

\* the input is meant for the engine: engine "b" is on both pages
Addressed(in, e) ==
  \/ in.to = "all"
  \/ in.to = "b" /\ e \in {"alone", "b"}
  \/ in.to = "a" /\ e = "a"

\* the page of the engine can make the change now
CanDo(in) ==
  CASE in.op \in {"mount", "mountOther"} -> ~rendered
    [] in.op = "draggable" -> rendered /\ pageOps < MaxPageOps
    [] in.op = "dispose" ->
         rendered /\ pageOps < MaxPageOps /\ FirstInstance(in.id) \in DOMAIN models
    [] OTHER -> TRUE

\* an input is chosen for the next round
begin(in) ==
  /\ worlds.focus = "alone"
  /\ worlds.input = NoInput
  /\ worlds' = [worlds EXCEPT !.input = in, !.handled = FALSE,
                              !.outcome = [e \in Engines |-> NoOutcome]]
  /\ UNCHANGED engineVars

\* it is the engine's turn to take the input `op`
Deliver(op) ==
  /\ worlds.input.op = op
  /\ ~worlds.handled
  /\ Addressed(worlds.input, worlds.focus)
  /\ CanDo(worlds.input)

\* the engine took the input; what it called is kept for the comparison
Delivered ==
  worlds' = [worlds EXCEPT !.handled = TRUE,
                           !.outcome[worlds.focus] = [did |-> TRUE, emitted |-> trace']]

\* the effect re-ran within the engine's turn
Emitted ==
  worlds' = [worlds EXCEPT !.outcome[worlds.focus].emitted = @ \o trace']

\* the input is not for this engine, or its page cannot make the change
skip ==
  /\ worlds.input # NoInput
  /\ ~worlds.handled
  /\ ~(Addressed(worlds.input, worlds.focus) /\ CanDo(worlds.input))
  /\ worlds' = [worlds EXCEPT !.handled = TRUE]
  /\ UNCHANGED engineVars

\* variant: one registry in module scope, shared by the engines of a page
registryOf_shared(p, samePage) ==
  IF samePage THEN [dragMap |-> dragMap, dropMap |-> dropMap]
  ELSE [dragMap |-> p.dragMap, dropMap |-> p.dropMap]

\* const registry = makeNodeRegistry() inside reatomDnd: each engine has its own
registryOf(p, samePage) == [dragMap |-> p.dragMap, dropMap |-> p.dropMap]

\* the next engine takes its turn; after the last one the round is over
rotate ==
  /\ worlds.handled
  /\ LET e == worlds.focus
         next == Successor(e)
         p == worlds.parked[next]
         samePage == PageOf(next) = PageOf(e)
     IN /\ refCounter' = IF samePage THEN refCounter ELSE worlds.counter
        /\ models' = p.models
        /\ dragCache' = p.dragCache
        /\ dropCache' = p.dropCache
        /\ dragListeners' = p.dragListeners
        /\ dropListeners' = p.dropListeners
        /\ dragMap' = registryOf(p, samePage).dragMap
        /\ dropMap' = registryOf(p, samePage).dropMap
        /\ containerToIds' = p.containerToIds
        /\ elementToParents' = p.elementToParents
        /\ positions' = p.positions
        /\ pendingDeltas' = p.pendingDeltas
        /\ rafId' = p.rafId
        /\ enqueued' = p.enqueued
        /\ dragging' = p.dragging
        /\ dropping' = p.dropping
        /\ pointer' = p.pointer
        /\ overlay' = p.overlay
        /\ effectPending' = p.effectPending
        /\ rafSubscribed' = p.rafSubscribed
        /\ pageOps' = p.pageOps
        /\ trace' = p.trace
        /\ passes' = p.passes
        /\ worlds' = [worlds EXCEPT
                        !.focus = next,
                        !.parked[e] = Packed,
                        !.counter = IF samePage THEN @ ELSE refCounter,
                        !.handled = FALSE,
                        !.input = IF next = "alone" THEN NoInput ELSE @]
  /\ UNCHANGED <<connected, scrollOffset>>

\* --------------------------------------------- the composite modifier
\* the modifiers a list is made of, and the longest list
ModifierSet ==
  {[kind |-> "offset", x |-> a, y |-> "start"] : a \in {"start", "center", "end"}}
    \cup {[kind |-> "grid", x |-> "start", y |-> "start"]}
MaxModifiers == 3

RECURSIVE ListsOf(_, _)
ListsOf(set, n) ==
  IF n = 0 THEN {<<>>}
  ELSE ListsOf(set, n - 1)
         \cup {Append(l, m) : l \in {k \in ListsOf(set, n - 1) : Len(k) = n - 1}, m \in set}

\* the context a composite is called with
ModifierArgs(position) ==
  [position |-> position,
   overlayRect |-> makeRect("overlay", DOMRect(0, 0, OverlayBox.width, OverlayBox.height)),
   draggingRect |-> NoRect, droppingRect |-> NoRect]

\* makeModifiers(mods) called with a position
composedCall(mods, position) ==
  /\ trace' = <<[ev |-> "makeModifiers", to |-> "modifier", mods |-> mods,
                 args |-> ModifierArgs(position),
                 calls |-> IF Len(mods) = 0 THEN <<>>
                           ELSE modifierCalls(mods, ModifierArgs(position), position),
                 result |-> makeModifiers(mods, ModifierArgs(position))]>>
  /\ UNCHANGED <<cacheVars, registryVars, scrollVars, sessionVars, effectVars, domVars,
                 passes>>

\* ------------------------------------------------ the composite sensor
MaxSensors == 2         \* sensors in a composite
MaxSubscriptions == 2   \* subscriptions made on a composite

\* the seven subscribe methods of a sensor, and the argument lists they take
SensorMethods ==
  {"onDragStart", "onDragEnd", "onMovePointer", "onCancel", "onDrop", "onDropEnter",
   "onDropLeave"}
SensorArgs(method) ==
  IF method \in {"onDropEnter", "onDropLeave"}
  THEN {<<node, "callback">> : node \in {"todoEl", "doneEl"}}
  ELSE {<<"callback">>}

\* variant: only the first sensor of the list is subscribed
composeSensorMethod_firstOnly(sensors, method, args, call) ==
  [i \in 1..Min(1, Len(sensors)) |->
     [ev |-> "subscribe", sensor |-> i, method |-> method, args |-> args, call |-> call]]

\* the composite's method: sensors.map(sensor => sensor[method](...args))
composeSensorMethod(sensors, method, args, call) ==
  [i \in 1..Len(sensors) |->
     [ev |-> "subscribe", sensor |-> i, method |-> method, args |-> args, call |-> call]]

\* the function the composite's method returned:
\* cleanups.forEach(cleanup => cleanup())
composedCleanup(subscriptions) ==
  [i \in 1..Len(subscriptions) |-> [subscriptions[i] EXCEPT !.ev = "cleanup"]]

\* makeSensors(sensors) for a list of n sensors
makeSensorsCall(n) ==
  /\ trace = <<>>
  /\ trace' = <<[ev |-> "makeSensors", sensor |-> 0, method |-> "none", args |-> <<>>,
                 call |-> 0, sensors |-> [i \in 1..n |-> i]]>>
  /\ UNCHANGED <<cacheVars, registryVars, scrollVars, sessionVars, effectVars, domVars,
                 passes>>

\* the composite was made; what was called since is kept in order
Composite == trace # <<>> /\ trace[1].ev = "makeSensors"
CallsOn(ev) == SelectSeq(trace, LAMBDA c : c.ev = ev)

\* composite[method](...args)
compositeSubscribe(method, args) ==
  /\ Composite
  /\ Len(CallsOn("composite.subscribe")) < MaxSubscriptions
  /\ LET call == Len(CallsOn("composite.subscribe")) + 1
     IN trace' = trace
          \o <<[ev |-> "composite.subscribe", sensor |-> 0, method |-> method,
                 args |-> args, call |-> call]>>
          \o composeSensorMethod(trace[1].sensors, method, args, call)
  /\ UNCHANGED <<cacheVars, registryVars, scrollVars, sessionVars, effectVars, domVars,
                 passes>>

\* the cleanup a subscription on the composite returned is called
compositeCleanup(call) ==
  /\ Composite
  /\ \E i \in DOMAIN trace : trace[i].ev = "composite.subscribe" /\ trace[i].call = call
  /\ ~\E i \in DOMAIN trace : trace[i].ev = "composite.cleanup" /\ trace[i].call = call
  /\ LET made == CHOOSE i \in DOMAIN trace :
                    trace[i].ev = "composite.subscribe" /\ trace[i].call = call
         subscriptions == SelectSeq(trace, LAMBDA c : c.ev = "subscribe" /\ c.call = call)
     IN trace' = trace
          \o <<[trace[made] EXCEPT !.ev = "composite.cleanup"]>>
          \o composedCleanup(subscriptions)
  /\ UNCHANGED <<cacheVars, registryVars, scrollVars, sessionVars, effectVars, domVars,
                 passes>>

\* ------------------------------------------- strategies by themselves
MaxCoord == 2   \* rects have their left and right edges in 0..MaxCoord,
Bottoms == 0..1 \* their top edge at 0 and their bottom edge in Bottoms

\* the drop zones handed to a strategy, in this order
CandidateIds == <<"todo", "done", "other">>

\* the measured boxes of non-negative width and height, owned by id
StrategyRects(id) ==
  {makeRect(id, DOMRect(e[1], 0, e[2] - e[1], e[3])) :
     e \in {e \in (0..MaxCoord) \X (0..MaxCoord) \X Bottoms : e[1] <= e[2]}}
CandidateLists ==
  {<<>>}
    \cup {<<a>> : a \in StrategyRects(CandidateIds[1])}
    \cup {<<a, b>> : a \in StrategyRects(CandidateIds[1]),
                     b \in StrategyRects(CandidateIds[2])}
    \cup {<<a, b, c>> : a \in StrategyRects(CandidateIds[1]),
                        b \in StrategyRects(CandidateIds[2]),
                        c \in StrategyRects(CandidateIds[3])}

\* Math.sqrt(n) as a fixed-point number of Scale units to 1, rounded down; on
\* the rects and pointers below it orders the values as the doubles do
Scale == 1000
RECURSIVE sqrtBetween(_, _, _)
sqrtBetween(n, low, high) ==
  IF low = high THEN low
  ELSE LET mid == (low + high + 1) \div 2
       IN IF mid * mid <= n THEN sqrtBetween(n, mid, high)
          ELSE sqrtBetween(n, low, mid - 1)
\* the roots of the numbers the strategies take a root of, computed once
Radicands == 0..(4 * MaxCoord * MaxCoord + 4 * Cardinality(Bottoms) * Cardinality(Bottoms))
Roots == [n \in Radicands |-> sqrtBetween(n * Scale * Scale, 0, (n \div 2 + 2) * Scale)]
sqrt(n) == Roots[n]

FracLess(a, b) == a.num * b.den < b.num * a.den

\* collisions.sort((a, b) => a.value - b.value): a stable sort, x goes after
\* every element that does not have a greater value
RECURSIVE InsertAscending(_, _)
InsertAscending(sorted, x) ==
  IF sorted = <<>> THEN <<x>>
  ELSE IF FracLess(x.value, Head(sorted).value) THEN <<x>> \o sorted
  ELSE <<Head(sorted)>> \o InsertAscending(Tail(sorted), x)

RECURSIVE SortAscending(_)
SortAscending(s) ==
  IF s = <<>> THEN <<>>
  ELSE InsertAscending(SortAscending(SubSeq(s, 1, Len(s) - 1)), s[Len(s)])

\* the distance from the pointer to the center left + width / 2,
\* top + height / 2, computed on the doubled coordinates
closestCenter(args) ==
  LET distance(d) ==
        [num |-> sqrt((2 * d.left + d.width - 2 * args.pointer.x)
                        * (2 * d.left + d.width - 2 * args.pointer.x)
                      + (2 * d.top + d.height - 2 * args.pointer.y)
                          * (2 * d.top + d.height - 2 * args.pointer.y)),
         den |-> 2 * Scale]
      collisions == [i \in DOMAIN args.droppingRects |->
                       [value |-> distance(args.droppingRects[i]),
                        droppingRect |-> args.droppingRects[i]]]
  IN SortAscending(collisions)

\* top-left, top-right, bottom-left, bottom-right
cornersOf(r) ==
  <<[x |-> r.left, y |-> r.top], [x |-> r.right, y |-> r.top],
    [x |-> r.left, y |-> r.bottom], [x |-> r.right, y |-> r.bottom]>>

aggregate(aggregation, distances) ==
  LET total == distances[1] + distances[2] + distances[3] + distances[4]
  IN CASE aggregation = "min" ->
            [num |-> Min(Min(distances[1], distances[2]), Min(distances[3], distances[4])),
             den |-> Scale]
       [] aggregation = "average" -> [num |-> total, den |-> Len(distances) * Scale]
       [] OTHER -> [num |-> total, den |-> Scale]

\* variant: each overlay corner is measured against the opposite corner
createClosestCorner_opposite(aggregation, args) ==
  LET overlayCorners == cornersOf(args.overlayRect)
      value(d) ==
        aggregate(aggregation,
                  [i \in 1..4 |->
                     sqrt((overlayCorners[i].x - cornersOf(d)[5 - i].x)
                            * (overlayCorners[i].x - cornersOf(d)[5 - i].x)
                          + (overlayCorners[i].y - cornersOf(d)[5 - i].y)
                              * (overlayCorners[i].y - cornersOf(d)[5 - i].y))])
      collisions == [i \in DOMAIN args.droppingRects |->
                       [value |-> value(args.droppingRects[i]),
                        droppingRect |-> args.droppingRects[i]]]
  IN SortAscending(collisions)

createClosestCorner(aggregation, args) ==
  LET overlayCorners == cornersOf(args.overlayRect)
      value(d) ==
        aggregate(aggregation,
                  [i \in 1..4 |->
                     sqrt((overlayCorners[i].x - cornersOf(d)[i].x)
                            * (overlayCorners[i].x - cornersOf(d)[i].x)
                          + (overlayCorners[i].y - cornersOf(d)[i].y)
                              * (overlayCorners[i].y - cornersOf(d)[i].y))])
      collisions == [i \in DOMAIN args.droppingRects |->
                       [value |-> value(args.droppingRects[i]),
                        droppingRect |-> args.droppingRects[i]]]
  IN SortAscending(collisions)

closestCorner(args) == createClosestCorner("sum", args)
closestCornerMin(args) == createClosestCorner("min", args)
closestCornerAverage(args) == createClosestCorner("average", args)

\* the pointer on a corner of the grid
StrategyPointers == {[x |-> x, y |-> y] : x \in 0..MaxCoord, y \in Bottoms}

\* closestCenter({ droppingRects, pointer })
closestCenterCall(pointerAt, droppingRects) ==
  /\ LET args == [pointer |-> pointerAt, droppingRects |-> droppingRects]
     IN trace' = <<[ev |-> "closestCenter", args |-> args, result |-> closestCenter(args)]>>
  /\ UNCHANGED <<cacheVars, registryVars, scrollVars, sessionVars, effectVars, domVars,
                 passes>>

\* the three exported corner strategies, called with { droppingRects, overlayRect }
closestCornerCall(overlayRect, droppingRects) ==
  /\ LET args == [overlayRect |-> overlayRect, droppingRects |-> droppingRects]
     IN \E call \in {[ev |-> "closestCorner", aggregation |-> "sum", args |-> args,
                      result |-> closestCorner(args)],
                     [ev |-> "closestCorner", aggregation |-> "min", args |-> args,
                      result |-> closestCornerMin(args)],
                     [ev |-> "closestCorner", aggregation |-> "average", args |-> args,
                      result |-> closestCornerAverage(args)]} :
          trace' = <<call>>
  /\ UNCHANGED <<cacheVars, registryVars, scrollVars, sessionVars, effectVars, domVars,
                 passes>>

\* no strategy was called yet
Uncalled == trace = <<>>

\* rectangleIntersection({ overlayRect, droppingRects })
rectangleIntersectionCall(overlayRect, droppingRects) ==
  /\ LET args == [overlayRect |-> overlayRect, droppingRects |-> droppingRects]
     IN trace' = <<[ev |-> "rectangleIntersection", args |-> args,
                    result |-> rectangleIntersection(args)]>>
  /\ UNCHANGED <<cacheVars, registryVars, scrollVars, sessionVars, effectVars, domVars,
                 passes>>

\* --------------------------------------------------- a rect by itself
MaxRectOps == 3   \* calls made on the rect after makeRect

\* the boxes a node measures as: width and height are never negative
RawRects == {DOMRect(x, 0, w, h) : x \in 0..1, w \in 0..1, h \in 1..2}
RectDeltas == {[deltaX |-> dx, deltaY |-> dy] : dx \in -1..1, dy \in 0..1}

\* the value of the atom: what the last call left
stored == trace[Len(trace)].after
RectMade == trace # <<>> /\ trace[1].ev = "makeRect"
CanCallRect == RectMade /\ Len(trace) <= MaxRectOps

\* makeRect(name, id, rect)
makeRectCall(rect) ==
  /\ trace' = <<[ev |-> "makeRect", rect |-> rect, after |-> makeRect("card", rect)]>>
  /\ UNCHANGED <<cacheVars, registryVars, scrollVars, sessionVars, effectVars, domVars,
                 passes>>

\* rect.update(rect)
rectUpdateCall(rect) ==
  /\ trace' = Append(trace, [ev |-> "update", rect |-> rect, before |-> stored,
                             set |-> updateSets(stored, rect),
                             after |-> update(stored, rect)])
  /\ UNCHANGED <<cacheVars, registryVars, scrollVars, sessionVars, effectVars, domVars,
                 passes>>

\* rect.updateWithOffset(deltaX, deltaY)
rectUpdateWithOffsetCall(delta) ==
  /\ trace' = Append(trace, [ev |-> "updateWithOffset", delta |-> delta, before |-> stored,
                             set |-> TRUE,
                             after |-> updateWithOffset(stored, delta.deltaX, delta.deltaY)])
  /\ UNCHANGED <<cacheVars, registryVars, scrollVars, sessionVars, effectVars, domVars,
                 passes>>

\* rect.updatePosition(position)
rectUpdatePositionCall(position) ==
  /\ trace' = Append(trace, [ev |-> "updatePosition", position |-> position,
                             before |-> stored, set |-> TRUE,
                             after |-> rectUpdatePosition(stored, position)])
  /\ UNCHANGED <<cacheVars, registryVars, scrollVars, sessionVars, effectVars, domVars,
                 passes>>

\* ------------------------------------------- the shared resize observer
MaxResizeOps == 4   \* subscriptions and teardowns of a resize-observer run

\* the nodes handed to the observer, and the instances whose effects do so:
\* an instance's callback updates that instance's rect
ResizeNodes == {"cardEl", "todoEl"}
ResizeInstances == {0, 1}
NoCallback == -1    \* callbackMap.get(element) === undefined

\* callbackMap and the set of elements the native observer observes, as the
\* last call left them
resizeState ==
  IF trace = <<>>
  THEN [callbackMap |-> [n \in ResizeNodes |-> NoCallback], observed |-> {}]
  ELSE trace[Len(trace)].after

CanCallResize == Len(trace) < MaxResizeOps

\* the function observe() returns: callbackMap.delete, unobserve
unobserve(state, element, callback) ==
  [callbackMap |-> [state.callbackMap EXCEPT ![element] = NoCallback],
   observed |-> state.observed \ {element}]

\* resizeObserver.observe(element, callback), as the resize effect of
\* `instance` calls it for the instance's node
resizeObserveCall(element, instance) ==
  /\ trace' = Append(trace,
       [ev |-> "observe", element |-> element, callback |-> instance,
        after |-> [callbackMap |-> [resizeState.callbackMap EXCEPT ![element] = instance],
                   observed |-> resizeState.observed \cup {element}]])
  /\ UNCHANGED <<cacheVars, registryVars, scrollVars, sessionVars, effectVars, domVars,
                 passes>>

\* the teardown returned by the call-th call, run when that effect is
\* unsubscribed or re-run: once
resizeTeardownCall(call) ==
  /\ call \in 1..Len(trace)
  /\ trace[call].ev = "observe"
  /\ \A j \in 1..Len(trace) : ~(trace[j].ev = "teardown" /\ trace[j].of = call)
  /\ trace' = Append(trace,
       [ev |-> "teardown", element |-> trace[call].element,
        callback |-> trace[call].callback, of |-> call,
        after |-> unobserve(resizeState, trace[call].element, trace[call].callback)])
  /\ UNCHANGED <<cacheVars, registryVars, scrollVars, sessionVars, effectVars, domVars,
                 passes>>

\* ------------------------------------- a page whose item is both kinds
\* a sortable item: one element is a draggable and a droppable under one id
SharedRender == <<[type |-> "drag", id |-> "done"],
                  [type |-> "drop", id |-> "todo"],
                  [type |-> "drop", id |-> "done"]>>

mountShared == mountPage(SharedRender, [id \in Ids |-> ElementOf(id)])

\* where the UI layer can put the node of a model of the page
SharedNodes(m) == {Null, "free", ElementOf(m.id)}

\* -------------------------------------------------------------------- Next
\* the page has this one engine: nothing else is kept
OneEngine == UNCHANGED worlds

\* the runtime re-runs a pending effect before the next event is handled
Ready == ~effectPending

\* what the page, the UI layer, the sensors and the browser can do
Next ==
  \/ OneEngine /\ Ready /\ mount
  \/ OneEngine /\ Ready /\ pageOp /\ \E id \in DragIds : draggable(id)
  \/ OneEngine /\ Ready /\ pageOp /\ \E id \in DropIds : droppable(id)
  \/ OneEngine /\ Ready /\ pageOp /\ \E m \in DOMAIN models : dispose(m)
  \/ OneEngine /\ Ready /\ pageOp /\ \E m \in DOMAIN models : \E n \in {Null, ElementOf(m.id)} : setNode(m, n)
  \/ OneEngine /\ Ready /\ pageOp /\ \E m \in SeqToSet(MapValues(dragCache \o dropCache)) :
                \E b \in BOOLEAN : setDisabled(m, b)
  \/ OneEngine /\ Ready /\ pageOp /\ \E n \in {Null, OverlayEl} : setOverlayNode(n)
  \/ OneEngine /\ Ready /\ pageOp /\ \E n \in Detachable : \E b \in BOOLEAN : setConnected(n, b)
  \/ OneEngine /\ Ready /\ \E target \in Targets : \E position \in Positions : onDragStart(target, position)
  \/ OneEngine /\ Ready /\ onDragEnd
  \/ OneEngine /\ Ready /\ \E position \in Positions : onMovePointer(position)
  \/ OneEngine /\ Ready /\ onCancel
  \/ OneEngine /\ Ready /\ pageOp /\ \E target \in Containers : \E by \in {-1, 1} :
                onScroll(target, scrollOffset[target].left + by)
  \/ OneEngine /\ Ready /\ FrameTick
  \/ OneEngine /\ mainEffect

Spec == Init /\ [][Next]_vars

\* a page that scrolls while the user drags: the models stay as first rendered
NextScroll ==
  \/ OneEngine /\ Ready /\ mount
  \/ OneEngine /\ Ready /\ pageOp /\ \E m \in SeqToSet(MapValues(dropCache)) : setDisabled(m, TRUE)
  \/ OneEngine /\ Ready /\ pageOp /\ \E n \in Detachable : setConnected(n, FALSE)
  \/ OneEngine /\ Ready /\ \E target \in {"handle"} : \E position \in Positions : onDragStart(target, position)
  \/ OneEngine /\ Ready /\ onDragEnd
  \/ OneEngine /\ Ready /\ onCancel
  \/ OneEngine /\ Ready /\ scrollOp /\ \E target \in Containers : \E by \in {-1, 1} :
                onScroll(target, scrollOffset[target].left + by)
  \/ OneEngine /\ Ready /\ FrameTick
  \/ OneEngine /\ mainEffect

SpecScroll == Init /\ [][NextScroll]_vars

\* a page that subscribes, unsubscribes, disposes and registers again while
\* sessions run
NextListeners ==
  \/ OneEngine /\ Ready /\ mount
  \/ OneEngine /\ Ready /\ pageOp /\ \E id \in DragIds : draggable(id)
  \/ OneEngine /\ Ready /\ pageOp /\ \E id \in DropIds : droppable(id)
  \/ OneEngine /\ Ready /\ pageOp /\ \E m \in DOMAIN models : dispose(m)
  \/ OneEngine /\ Ready /\ \E m \in DOMAIN models : \E ev \in EventsOf(m.type) :
                \E cb \in Callbacks : subscribe(m, ev, cb)
  \/ OneEngine /\ Ready /\ \E m \in DOMAIN models : \E ev \in EventsOf(m.type) :
                \E cb \in Callbacks \cup {"hook"} : unsubscribe(m, ev, cb)
  \/ OneEngine /\ Ready /\ onDragStart("handle", pointer)
  \/ OneEngine /\ Ready /\ onDragEnd
  \/ OneEngine /\ Ready /\ onCancel
  \/ OneEngine /\ Ready /\ FrameTick
  \/ OneEngine /\ mainEffect

SpecListeners == Init /\ [][NextListeners]_vars

\* a page that renders again during sessions: models are registered again
\* under their id, disposed, disabled, and their nodes set, cleared or
\* detached, also through an instance that has been replaced
NextRerender ==
  \/ OneEngine /\ Ready /\ mount
  \/ OneEngine /\ Ready /\ renderOp /\ \E id \in DragIds : draggable(id)
  \/ OneEngine /\ Ready /\ renderOp /\ \E id \in DropIds : droppable(id)
  \/ OneEngine /\ Ready /\ renderOp /\ \E m \in DOMAIN models : dispose(m)
  \/ OneEngine /\ Ready /\ renderOp /\ \E m \in DOMAIN models : \E n \in {Null, ElementOf(m.id)} : setNode(m, n)
  \/ OneEngine /\ Ready /\ renderOp /\ \E m \in SeqToSet(MapValues(dragCache \o dropCache)) :
                \E b \in BOOLEAN : setDisabled(m, b)
  \/ OneEngine /\ Ready /\ renderOp /\ \E n \in Detachable : \E b \in BOOLEAN : setConnected(n, b)
  \/ OneEngine /\ Ready /\ \E target \in {"handle"} : \E position \in {[x |-> 0, y |-> 0]} :
                onDragStart(target, position)
  \/ OneEngine /\ Ready /\ onDragEnd
  \/ OneEngine /\ Ready /\ onCancel
  \/ OneEngine /\ Ready /\ FrameTick
  \/ OneEngine /\ mainEffect

SpecRerender == Init /\ [][NextRerender]_vars

\* the node registry called directly, in any order and with any arguments
NextRegistry ==
  \/ OneEngine /\ \E el \in RegistryNodes : \E id \in RegistryDragIds : registerDrag(el, id)
  \/ OneEngine /\ \E el \in RegistryNodes : \E id \in RegistryDropIds : registerDrop(el, id)
  \/ OneEngine /\ \E el \in RegistryNodes : \E id \in RegistryDragIds : unregisterDrag(el, id)
  \/ OneEngine /\ \E el \in RegistryNodes : \E id \in RegistryDropIds : unregisterDrop(el, id)
  \/ OneEngine /\ \E target \in RegistryNodes \cup {Null} : findAncestorDragIdCall(target)

SpecRegistry == Init /\ [][NextRegistry]_vars

\* a page whose draggable gets and loses a drag handle
NextActivator ==
  \/ OneEngine /\ Ready /\ mount
  \/ OneEngine /\ Ready /\ pageOp /\ \E m \in DOMAIN models : \E n \in Activators \cup {Null} : setActivatorNode(m, n)
  \/ OneEngine /\ Ready /\ \E target \in Targets : \E position \in Positions : onDragStart(target, position)
  \/ OneEngine /\ Ready /\ onDragEnd
  \/ OneEngine /\ Ready /\ \E position \in Positions : onMovePointer(position)
  \/ OneEngine /\ Ready /\ onCancel
  \/ OneEngine /\ Ready /\ FrameTick
  \/ OneEngine /\ mainEffect

SpecActivator == Init /\ [][NextActivator]_vars

\* engines constructed with any of the three options given or left out
NextConstruct ==
  \/ OneEngine /\ \E sensors \in SensorLists : \E strategy \in Strategies : \E modifiers \in ModifierLists :
       construct([sensors |-> sensors, intersectionStrategy |-> strategy,
                  modifiers |-> modifiers])
  \/ OneEngine /\ sensorSubscribe
  \/ OneEngine /\ \E position \in Positions : modifierCall(position)

SpecConstruct == Init /\ [][NextConstruct]_vars

\* two pages given the same inputs in rounds: every engine takes the input in
\* its turn and re-runs its effect before the next engine's turn
NextTwoEngines ==
  \/ Ready /\ \E in \in Inputs : begin(in)
  \/ Ready /\ Deliver("mount") /\ mount /\ Delivered
  \/ Ready /\ Deliver("mountOther") /\ mountOther /\ Delivered
  \/ Ready /\ Deliver("draggable") /\ pageOp /\ draggable(worlds.input.id) /\ Delivered
  \/ Ready /\ Deliver("dispose") /\ pageOp /\ dispose(FirstInstance(worlds.input.id)) /\ Delivered
  \/ Ready /\ Deliver("onDragStart")
           /\ onDragStart(worlds.input.target, worlds.input.position) /\ Delivered
  \/ Ready /\ Deliver("onDragEnd") /\ onDragEnd /\ Delivered
  \/ Ready /\ Deliver("onCancel") /\ onCancel /\ Delivered
  \/ Ready /\ skip
  \/ Ready /\ rotate
  \/ mainEffect /\ Emitted

SpecTwoEngines == Init /\ [][NextTwoEngines]_vars

\* composites of every list of modifiers, called with every position
NextModifiers ==
  \/ OneEngine /\ \E mods \in ListsOf(ModifierSet, MaxModifiers) :
                    \E position \in Positions : composedCall(mods, position)

SpecModifiers == Init /\ [][NextModifiers]_vars

\* a composite of any number of sensors, subscribed to and cleaned up
NextSensors ==
  \/ OneEngine /\ \E n \in 0..MaxSensors : makeSensorsCall(n)
  \/ OneEngine /\ \E method \in SensorMethods : \E args \in SensorArgs(method) :
                    compositeSubscribe(method, args)
  \/ OneEngine /\ \E call \in 1..MaxSubscriptions : compositeCleanup(call)

SpecSensors == Init /\ [][NextSensors]_vars

\* rectangleIntersection called on any overlay rect and list of drop zones
NextIntersection ==
  \/ OneEngine /\ Uncalled /\ \E overlayRect \in StrategyRects("overlay") :
                    \E droppingRects \in CandidateLists :
                      rectangleIntersectionCall(overlayRect, droppingRects)

SpecIntersection == Init /\ [][NextIntersection]_vars

\* the distance strategies called on any pointer, overlay rect and drop zones
NextClosest ==
  \/ OneEngine /\ Uncalled /\ \E pointerAt \in StrategyPointers :
                    \E droppingRects \in CandidateLists :
                      closestCenterCall(pointerAt, droppingRects)
  \/ OneEngine /\ Uncalled /\ \E overlayRect \in StrategyRects("overlay") :
                    \E droppingRects \in CandidateLists :
                      closestCornerCall(overlayRect, droppingRects)

SpecClosest == Init /\ [][NextClosest]_vars

\* one rect atom, made and then updated in any of the three ways
NextRect ==
  \/ OneEngine /\ Uncalled /\ \E rect \in RawRects : makeRectCall(rect)
  \/ OneEngine /\ CanCallRect /\ \E rect \in RawRects : rectUpdateCall(rect)
  \/ OneEngine /\ CanCallRect /\ \E delta \in RectDeltas : rectUpdateWithOffsetCall(delta)
  \/ OneEngine /\ CanCallRect /\ \E position \in Positions : rectUpdatePositionCall(position)

SpecRect == Init /\ [][NextRect]_vars

\* resize effects of several instances subscribing nodes to the shared
\* observer and tearing their subscriptions down, in any order
NextResize ==
  \/ OneEngine /\ CanCallResize /\ \E element \in ResizeNodes : \E instance \in ResizeInstances :
                    resizeObserveCall(element, instance)
  \/ OneEngine /\ CanCallResize /\ \E call \in 1..MaxResizeOps : resizeTeardownCall(call)

SpecResize == Init /\ [][NextResize]_vars

\* a page with a draggable and a droppable of the same id, whose nodes are
\* set, moved and cleared while its containers scroll during drags
NextSharedId ==
  \/ OneEngine /\ Ready /\ mountShared
  \/ OneEngine /\ Ready /\ renderOp /\ \E m \in DOMAIN models : \E n \in SharedNodes(m) : setNode(m, n)
  \/ OneEngine /\ Ready /\ \E target \in {"doneEl", "free"} : \E position \in {[x |-> 0, y |-> 0]} :
                onDragStart(target, position)
  \/ OneEngine /\ Ready /\ onDragEnd
  \/ OneEngine /\ Ready /\ onCancel
  \/ OneEngine /\ Ready /\ renderOp /\ \E target \in Containers : \E by \in {-1, 1} :
                onScroll(target, scrollOffset[target].left + by)
  \/ OneEngine /\ Ready /\ FrameTick
  \/ OneEngine /\ mainEffect

SpecSharedId == Init /\ [][NextSharedId]_vars

\* ---------------------------------------------------------------- reading
\* isActive of a model: the session cell of its kind references this instance
isActive(m) ==
  IF m.type = "drag" THEN dragging = m ELSE dropping = m

\* the handler (or pass) whose calls the trace holds
HandlerRan(ev) == trace # <<>> /\ trace[1].to = "handler" /\ trace[1].ev = ev
PassRan == trace # <<>> /\ trace[1].to = "strategy"

\* the calls to consumer code made after the first trace entry: event, level,
\* drag and drop argument
CallsMade ==
  IF trace = <<>> THEN <<>>
  ELSE LET calls == SelectSeq(Tail(trace), LAMBDA e : e.to \in {"model", "engine"})
       IN [i \in 1..Len(calls) |-> <<calls[i].ev, calls[i].to, calls[i].drag, calls[i].drop>>]

\* the positions in the trace of the calls of one event
CallsOf(ev) == {i \in 1..Len(trace) : trace[i].ev = ev}

\* ------------------------------------------------------------------ claims
\* C1: a DragEnd during a drag calls, in this order, onDragEnd on the dragged
\* model's listeners, the engine's onDragEnd, and, only when a drop model is
\* active, onDrop(drag, drop) on the drop model's listeners and then the
\* engine's onDrop; with nothing dragged it calls nothing.
C1_DragEndOrder ==
  HandlerRan("onDragEnd") =>
    LET d == trace[1].seenDragging
        p == trace[1].seenDropping
    IN CallsMade =
         (IF d # NoModel
          THEN <<<<"onDragEnd", "model", d, NoModel>>, <<"onDragEnd", "engine", d, NoModel>>>>
          ELSE <<>>)
         \o (IF d # NoModel /\ p # NoModel
             THEN <<<<"onDrop", "model", d, p>>, <<"onDrop", "engine", d, p>>>>
             ELSE <<>>)

\* a drag has just ended over an active drop model: all four calls were made
C1_Witness ==
  /\ HandlerRan("onDragEnd")
  /\ trace[1].seenDragging # NoModel
  /\ trace[1].seenDropping # NoModel
  /\ Len(trace) = 5
  /\ trace[5].ev = "onDrop"

\* C2 as stated: every onDragEnd and every onDrop call of a DragEnd runs while
\* the dragging cell still holds the dragged model and the dropping cell still
\* holds the active drop model.
C2_CallbacksSeeBothCells ==
  HandlerRan("onDragEnd") =>
    \A i \in 2..Len(trace) :
      /\ trace[i].seenDragging = trace[1].seenDragging
      /\ trace[i].seenDropping = trace[1].seenDropping

\* C2 (amended): the onDragEnd calls run with both cells intact; the dragging
\* cell is cleared after them and before the onDrop calls, which still see the
\* dropping cell and are handed the dragged and the drop model; both cells
\* are empty when the handler returns.
C2_DragEndReset ==
  (HandlerRan("onDragEnd") /\ trace[1].seenDragging # NoModel) =>
    /\ \A i \in CallsOf("onDragEnd") \ {1} :
         /\ trace[i].seenDragging = trace[1].seenDragging
         /\ trace[i].seenDropping = trace[1].seenDropping
    /\ \A i \in CallsOf("onDrop") :
         /\ trace[i].seenDragging = NoModel
         /\ trace[i].seenDropping = trace[1].seenDropping
         /\ trace[i].drag = trace[1].seenDragging
         /\ trace[i].drop = trace[1].seenDropping
    /\ dragging = NoModel
    /\ dropping = NoModel

\* an onDrop call that ran with the dragging cell already empty
C2_Witness ==
  /\ HandlerRan("onDragEnd")
  /\ \E i \in CallsOf("onDrop") :
       trace[i].seenDragging = NoModel /\ trace[i].seenDropping # NoModel
  /\ dragging = NoModel /\ dropping = NoModel

\* the chain target, parent, grandparent, ... up to the root
Ancestors(n) ==
  {a \in Nodes : a = n \/ a = parentElement(n) \/
                 (parentElement(n) # Null /\ a = parentElement(parentElement(n)))}
Depth(n) == IF parentElement(n) = Null THEN 0
            ELSE IF parentElement(parentElement(n)) = Null THEN 1 ELSE 2

\* the drag model a DragStart on `target` resolves to: the model cached under
\* the id of the nearest ancestor-or-self registered in the drag namespace,
\* unless there is none or it is disabled
Resolves(target) ==
  LET registered == {a \in Ancestors(target) : dragMap[a] # NoId}
  IN IF registered = {} THEN NoModel
     ELSE LET nearest == CHOOSE a \in registered : \A b \in registered : Depth(a) >= Depth(b)
              id == dragMap[nearest]
          IN IF MapHas(dragCache, id) /\ ~models[MapGet(dragCache, id, NoModel)].disabled
             THEN MapGet(dragCache, id, NoModel)
             ELSE NoModel

\* C3: on a successful DragStart the dragging cell already holds the resolved
\* model when the first onDragStart call runs, and exactly one onDragStart is
\* made: the model's listeners first, then the engine callback, each with the
\* model.
C3_DragStartEmission ==
  (HandlerRan("onDragStart") /\ Resolves(trace[1].target) # NoModel) =>
    LET model == Resolves(trace[1].target)
    IN /\ dragging = model
       /\ CallsMade = <<<<"onDragStart", "model", model, NoModel>>,
                        <<"onDragStart", "engine", model, NoModel>>>>
       /\ \A i \in 2..Len(trace) : trace[i].seenDragging = model

\* a drag started from the handle inside the card element
C3_Witness ==
  /\ HandlerRan("onDragStart")
  /\ trace[1].target = "handle"
  /\ trace[1].seenDragging = NoModel
  /\ dragging # NoModel
  /\ Len(trace) = 3

\* the step just taken was the handler of the sensor event `ev`
HandlerStep(ev) == trace' # <<>> /\ trace'[1].to = "handler" /\ trace'[1].ev = ev

\* C4: a DragStart whose target has no registered drag id on its ancestor
\* chain, or whose id has no model in the drag cache, or whose model is
\* disabled, changes nothing: dragging, dropping, pointer, overlay, scroll
\* baselines and every rect stay as they were, and no callback is called.
C4_DragStartNoop ==
  [][(HandlerStep("onDragStart") /\ Resolves(trace'[1].target) = NoModel) =>
       /\ Len(trace') = 1
       /\ UNCHANGED <<dragging, dropping, pointer, overlay, positions, models,
                      pendingDeltas, rafId, effectPending>>]_vars

\* a DragStart on an element still registered under the id of a disposed model
C4_Witness ==
  /\ HandlerRan("onDragStart")
  /\ Len(trace) = 1
  /\ dragMap[trace[1].target] # NoId
  /\ ~MapHas(dragCache, dragMap[trace[1].target])
  /\ dragging = NoModel

\* C5: a Cancel during a drag calls onDragCancel only (the model's listeners,
\* then the engine callback), never onDrop, onDropLeave or onDragEnd, and
\* leaves both cells empty.
C5_CancelDuringDrag ==
  (HandlerRan("onCancel") /\ trace[1].seenDragging # NoModel) =>
    LET d == trace[1].seenDragging
    IN /\ CallsMade = <<<<"onDragCancel", "model", d, NoModel>>,
                        <<"onDragCancel", "engine", d, NoModel>>>>
       /\ CallsOf("onDrop") \cup CallsOf("onDropLeave") \cup CallsOf("onDragEnd") = {}
       /\ dragging = NoModel
       /\ dropping = NoModel

\* a drag over an active drop model has just been cancelled
C5_Witness ==
  /\ HandlerRan("onCancel")
  /\ trace[1].seenDragging # NoModel
  /\ trace[1].seenDropping # NoModel
  /\ Len(trace) = 3
  /\ dropping = NoModel

\* C6: a Cancel received in Idle changes no state and calls nothing, and every
\* Cancel leaves the session Idle, so a second Cancel adds nothing to the first.
C6_CancelIdempotent ==
  [][HandlerStep("onCancel") =>
       /\ dragging' = NoModel /\ dropping' = NoModel
       /\ dragging = NoModel =>
            /\ Len(trace') = 1
            /\ UNCHANGED <<cacheVars, registryVars, scrollVars, sessionVars, effectVars,
                           domVars, passes>>]_vars

\* a Cancel in Idle after an earlier drag
C6_Witness ==
  /\ HandlerRan("onCancel")
  /\ trace[1].seenDragging = NoModel
  /\ Len(trace) = 1
  /\ positions[Document] # NoPosition

\* C7: in a collision pass that changes the active drop model from A to a
\* different B, or to none, onDropLeave for A (the model's listeners, then the
\* engine callback with the dragged model and A) is called before onDropEnter
\* for B; no onDropEnter is called before an onDropLeave of the same pass.
C7_LeaveBeforeEnter ==
  PassRan =>
    LET A == trace[1].seenDropping
        B == dropping
    IN /\ (A # NoModel /\ A # B) =>
            CallsMade =
              <<<<"onDropLeave", "model", NoModel, A>>, <<"onDropLeave", "engine", dragging, A>>>>
              \o (IF B # NoModel
                  THEN <<<<"onDropEnter", "model", NoModel, B>>,
                         <<"onDropEnter", "engine", dragging, B>>>>
                  ELSE <<>>)
       /\ \A i \in CallsOf("onDropLeave") : \A j \in CallsOf("onDropEnter") : i < j

\* a pass that moved the active drop model from one model to another
C7_Witness ==
  /\ PassRan
  /\ trace[1].seenDropping # NoModel
  /\ dropping # NoModel
  /\ dropping # trace[1].seenDropping
  /\ Len(trace) = 5

\* C8: while dragging, the collision pass runs at most once per animation
\* frame however many PointerMove events arrive in between; a PointerMove
\* neither runs the pass nor schedules it.
C8_OnePassPerFrame ==
  [][/\ passes' <= 1
     /\ HandlerStep("onMovePointer") =>
          /\ passes' = passes
          /\ effectPending' = effectPending
          /\ UNCHANGED <<dropping, overlay>>]_vars

\* a PointerMove during a drag, after this frame's pass: the pointer has moved
\* and the overlay has not followed
C8_Witness ==
  /\ HandlerRan("onMovePointer")
  /\ dragging # NoModel
  /\ passes = 1
  /\ ~effectPending
  /\ pointer # overlay.position

\* C9: the session is Idle, Dragging or Dragging+Targeting: dropping non-empty
\* implies dragging non-empty, at most one drag model and at most one drop
\* model is active, and a model is active exactly when the cell of its kind
\* references that instance.
C9_SessionStates ==
  /\ dropping # NoModel => dragging # NoModel
  /\ dragging # NoModel => dragging \in DOMAIN models /\ dragging.type = "drag"
  /\ dropping # NoModel => dropping \in DOMAIN models /\ dropping.type = "drop"
  /\ Cardinality({m \in DOMAIN models : m.type = "drag" /\ isActive(m)}) <= 1
  /\ Cardinality({m \in DOMAIN models : m.type = "drop" /\ isActive(m)}) <= 1
  /\ \A m \in DOMAIN models : isActive(m) <=> m \in {dragging, dropping}

\* Dragging+Targeting with a second instance of the active drop model's id alive
C9_Witness ==
  /\ dragging # NoModel
  /\ dropping # NoModel
  /\ isActive(dragging) /\ isActive(dropping)
  /\ \E m \in DOMAIN models : m.id = dropping.id /\ m # dropping /\ ~isActive(m)

\* the cached drop models, and those of them that can be hit
CachedDrops == {dropCache[i].value : i \in 1..Len(dropCache)}
Hittable(m) ==
  /\ models[m].node # Null
  /\ models[m].node \in connected
  /\ dropMap[models[m].node] = m.id
  /\ ~models[m].disabled

\* C10: the candidates a collision pass hands to the strategy are exactly the
\* rects of the cached drop models that have a node, attached to the document
\* and registered under the model's id in the drop namespace, and that are not
\* disabled; the drop model active after the pass is one of them.
C10_Candidates ==
  PassRan =>
    /\ SeqToSet(trace[1].rects) = {models[m].rect : m \in {c \in CachedDrops : Hittable(c)}}
    /\ Len(trace[1].rects) = Cardinality({c \in CachedDrops : Hittable(c)})
    /\ dropping # NoModel => dropping \in CachedDrops /\ Hittable(dropping)

\* a pass that ran with a detached drop model in the cache and still found a target
C10_Witness ==
  /\ PassRan
  /\ \E c \in CachedDrops : models[c].node # Null /\ models[c].node \notin connected
  /\ Len(trace[1].rects) = 1
  /\ dropping # NoModel

\* the hand-overs to applyScrollDeltas among the calls of a step
AppliedIn(t) == SelectSeq(t, LAMBDA e : e.to = "batcher")

\* the sum of the x-deltas enqueued for one container
RECURSIVE SumX(_, _)
SumX(q, c) ==
  IF q = <<>> THEN 0
  ELSE (IF Head(q).container = c THEN Head(q).deltaX ELSE 0) + SumX(Tail(q), c)

\* the containers for which something was enqueued
Scrolled(q) == {q[i].container : i \in 1..Len(q)}

\* C11: a flush hands over exactly one delta per scrolled container, the sum
\* of the deltas enqueued for it since the batch was last emptied; what was
\* enqueued leaves the batch only by such a flush (the frame's or DragEnd's)
\* or by Cancel, after which nothing of it is left to apply again; while
\* something is enqueued a frame callback is scheduled.
C11_FlushSumsPerContainer ==
  [][/\ AppliedIn(trace') # <<>> =>
          /\ Len(AppliedIn(trace')) = 1
          /\ enqueued # <<>>
          /\ LET deltas == AppliedIn(trace')[1].deltas
             IN /\ {deltas[i].container : i \in 1..Len(deltas)} = Scrolled(enqueued)
                /\ Len(deltas) = Cardinality(Scrolled(enqueued))
                /\ \A i \in 1..Len(deltas) :
                     /\ deltas[i].deltaX = SumX(enqueued, deltas[i].container)
                     /\ deltas[i].isDocument = (deltas[i].container = Document)
          /\ enqueued' = <<>> /\ pendingDeltas' = <<>>
     /\ (enqueued # <<>> /\ enqueued' # enqueued) =>
          \/ Len(enqueued') = Len(enqueued) + 1 /\ SubSeq(enqueued', 1, Len(enqueued)) = enqueued
          \/ /\ enqueued' = <<>> /\ pendingDeltas' = <<>> /\ rafId' = NoRaf
             /\ AppliedIn(trace') # <<>> \/ HandlerStep("onCancel")
     /\ enqueued' # <<>> => rafId' # NoRaf /\ dragging' # NoModel
     /\ enqueued' = <<>> => pendingDeltas' = <<>>]_vars

\* a flush of two deltas enqueued for the same container
C11_Witness ==
  /\ AppliedIn(trace) # <<>>
  /\ Len(AppliedIn(trace)[1].deltas) = 1
  /\ AppliedIn(trace)[1].deltas[1].deltaX = 2
  /\ enqueued = <<>>

\* the node of m lies inside the container c
Inside(m, c) ==
  \/ c = Document
  \/ models[m].node # Null /\ c \in Ancestors(models[m].node) \ {models[m].node}

\* a scroll of c moves the rect of m: m is the dragged model or an enabled,
\* attached, cached drop model, and its node lies inside c
Moves(c, m) ==
  /\ m = dragging \/ (m \in CachedDrops /\ Hittable(m))
  /\ Inside(m, c)

\* how far the deltas in q move the rect of m
ShiftX(q, m) ==
  (IF Moves(Document, m) THEN SumX(q, Document) ELSE 0)
  + (IF Moves("list", m) THEN SumX(q, "list") ELSE 0)

\* a rect moved left by d
MovedLeft(r, d) == [r EXCEPT !.x = @ - d, !.left = @ - d, !.right = @ - d]

\* C12: on DragEnd the pending scroll deltas are applied to the rects before the
\* first onDragEnd / onDrop call of that DragEnd, and the frame callback that
\* was scheduled for them is cancelled, so they are not applied again.
C12_DragEndFlushesFirst ==
  [][HandlerStep("onDragEnd") =>
       /\ enqueued # <<>> =>
            /\ Len(trace') >= 2 /\ trace'[2].to = "batcher"
            /\ \A i \in 3..Len(trace') : trace'[i].to \in {"model", "engine"}
       /\ \A m \in DOMAIN models :
            models'[m] = [models[m] EXCEPT !.rect = MovedLeft(@, ShiftX(enqueued, m))]
       /\ pendingDeltas' = <<>> /\ enqueued' = <<>> /\ rafId' = NoRaf]_vars

\* a drag ended with a scroll of the document pending: the rects were moved
\* before the listeners were called
C12_Witness ==
  /\ HandlerRan("onDragEnd")
  /\ Len(trace) >= 4
  /\ trace[2].to = "batcher"
  /\ trace[2].deltas[1].deltaX # 0
  /\ trace[3].ev = "onDragEnd"
  /\ rafId = NoRaf

\* C13: a Cancel discards what is pending: it hands nothing to
\* applyScrollDeltas, leaves every rect as it was and cancels the frame
\* callback; whenever deltas are applied later, each rect moves by the sums of
\* what was enqueued after the batch was last emptied, never by more.
C13_CancelDiscards ==
  [][/\ HandlerStep("onCancel") =>
          /\ AppliedIn(trace') = <<>>
          /\ models' = models
          /\ pendingDeltas' = <<>> /\ enqueued' = <<>> /\ rafId' = NoRaf
     /\ (AppliedIn(trace') # <<>> \/ (rafId # NoRaf /\ rafId' = NoRaf /\ ~HandlerStep("onCancel"))) =>
          \A m \in DOMAIN models :
            models'[m] = [models[m] EXCEPT !.rect = MovedLeft(@, ShiftX(enqueued, m))]]_vars

\* a drag was cancelled with a scroll pending, and the rects did not follow it
C13_Witness ==
  /\ HandlerRan("onCancel")
  /\ trace[1].seenDragging # NoModel
  /\ Len(trace[1].deltas) = 2
  /\ \A i \in 1..2 : trace[1].deltas[i].deltaX # 0
  /\ pendingDeltas = <<>>
  /\ rafId = NoRaf

\* how far a list of applied deltas moves the rect of m
RECURSIVE MoveBy(_, _)
MoveBy(deltas, m) ==
  IF deltas = <<>> THEN 0
  ELSE (IF Moves(Head(deltas).container, m) THEN Head(deltas).deltaX ELSE 0)
       + MoveBy(Tail(deltas), m)

CacheOf(type) == IF type = "drag" THEN dragCache ELSE dropCache
ListenersOf(type) == IF type = "drag" THEN dragListeners ELSE dropListeners

\* the step just taken was a draggable(id) / droppable(id) call that made `new`
FactoryStep(new) ==
  /\ refCounter' = refCounter + 1
  /\ new \in DOMAIN models' \ DOMAIN models

\* C15: draggable(id) / droppable(id) called while an instance with that id is
\* cached disposes that instance and makes the new one the instance found
\* under the id by hit-testing and candidate collection; the new instance's
\* node cell starts with the previous instance's node, and the registry is
\* untouched, so that node stays registered under the id.
C15_LastRegistrationWins ==
  [][\A type \in {"drag", "drop"} : \A id \in Ids :
       LET prev == MapGet(CacheOf(type), id, NoModel)
       IN \A new \in DOMAIN models' \ DOMAIN models :
            (FactoryStep(new) /\ new.type = type /\ new.id = id /\ prev # NoModel) =>
              /\ MapGet(CacheOf(type), id, NoModel)' = new
              /\ prev \notin SeqToSet(MapValues(CacheOf(type)))'
              /\ prev \notin ListenersOf(type)'
              /\ new \in ListenersOf(type)'
              /\ models'[new].node = models[prev].node
              /\ dragMap' = dragMap /\ dropMap' = dropMap
              /\ type = "drag" =>
                   \A t \in Nodes :
                     /\ Resolves(t)' # prev
                     /\ Resolves(t) = prev => Resolves(t)' = new
              /\ type = "drop" =>
                   /\ new \in CachedDrops' /\ prev \notin CachedDrops'
                   /\ (models[prev].node # Null /\ dropMap[models[prev].node] = id
                       /\ models[prev].node \in connected) => Hittable(new)']_vars

\* the card was registered a second time: a press on its handle finds the new
\* instance, which holds the node the first instance had
C15_Witness ==
  /\ \E m \in SeqToSet(MapValues(dragCache)) :
       /\ m.gen = 1
       /\ models[m].node = "cardEl"
       /\ dragMap["cardEl"] = m.id
       /\ Resolves("handle") = m
       /\ [type |-> "drag", id |-> m.id, gen |-> 0] \notin dragListeners
\* an instance is current while its id's cache entry is the instance itself:
\* dispose() and a later registration of the id both end that
Current(m) == MapGet(CacheOf(m.type), m.id, NoModel) = m

\* how many times x occurs in a sequence
Count(seq, x) == Cardinality({i \in DOMAIN seq : seq[i] = x})

\* C16: whatever the page registered, disposed, subscribed and unsubscribed,
\* an emission addressed to an instance that was disposed or replaced invokes
\* none of the listeners subscribed on it, and an emission to any instance
\* invokes a callback no more often than it is subscribed for the event
C16_DisposedListenersSilent ==
  \A i \in DOMAIN trace :
    trace[i].to = "model" =>
      LET e == trace[i]
          m == Emitter(e.ev, e.drag, e.drop)
      IN /\ ~Current(m) => e.invoked = <<>>
         /\ \A cb \in Callbacks \cup {"hook"} :
              Count(e.invoked, cb) <= Count(models[m].handlers, [ev |-> e.ev, cb |-> cb])

\* a drag ended on an instance disposed during the drag, on which the page had
\* subscribed again after the disposal
C16_Witness ==
  \E i \in DOMAIN trace :
    /\ trace[i].to = "model"
    /\ trace[i].ev = "onDragEnd"
    /\ ~Current(trace[i].drag)
    /\ Count(models[trace[i].drag].handlers, [ev |-> "onDragEnd", cb |-> "page"]) > 0
    /\ trace[i].invoked = <<>>

\* the registry call the last step made, if it made one
RegistryStep(ops) == trace' # <<>> /\ trace'[1].to = "registry" /\ trace'[1].ev \in ops

\* C17: unregisterDrag(node, id) and unregisterDrop(node, id) remove the node's
\* association in their namespace exactly when the node is associated with
\* `id`; in every other case, and for every other node and the other
\* namespace, the registry is as it was
C17_UnregisterOnlyOwnId ==
  [][RegistryStep({"unregisterDrag", "unregisterDrop"}) =>
       LET c == trace'[1]
           drag == c.ev = "unregisterDrag"
           before == IF drag THEN dragMap ELSE dropMap
           after == IF drag THEN dragMap' ELSE dropMap'
       IN /\ (before[c.el] = c.id) <=> (after[c.el] = NoId /\ before[c.el] # NoId)
          /\ before[c.el] # c.id => after = before
          /\ \A n \in Nodes \ {c.el} : after[n] = before[n]
          /\ IF drag THEN dropMap' = dropMap ELSE dragMap' = dragMap]_vars

\* a node registered under "card" and then under "other" keeps "other" after
\* unregisterDrag(node, "card")
C17_Witness ==
  /\ trace # <<>>
  /\ trace[1].to = "registry"
  /\ trace[1].ev = "unregisterDrag"
  /\ trace[1].id = "card"
  /\ dragMap[trace[1].el] = "other"

\* the nodes on the chain target, parent(target), ... with a drag registration
RegisteredOnChain(target) ==
  IF target = Null THEN {} ELSE {a \in Ancestors(target) : dragMap[a] # NoId}

\* C18: findAncestorDragId(target) returns the drag id of the nearest node on
\* the chain from the target upwards that is registered in the drag namespace,
\* and nothing when the target is null or no node on the chain is registered;
\* drop registrations do not matter
C18_NearestRegisteredAncestor ==
  (trace # <<>> /\ trace[1].to = "registry" /\ trace[1].ev = "findAncestorDragId") =>
    LET registered == RegisteredOnChain(trace[1].el)
    IN IF registered = {}
       THEN trace[1].result = NoId
       ELSE \E a \in registered :
              /\ \A b \in registered : Depth(a) >= Depth(b)
              /\ trace[1].result = dragMap[a]

\* the same for registrations under a non-empty id: the nearest node on the
\* chain registered under a non-empty id decides the result
C18_NearestNonEmptyId ==
  (trace # <<>> /\ trace[1].to = "registry" /\ trace[1].ev = "findAncestorDragId") =>
    LET registered == {a \in RegisteredOnChain(trace[1].el) : dragMap[a] # ""}
    IN IF registered = {}
       THEN trace[1].result = NoId
       ELSE \E a \in registered :
              /\ \A b \in registered : Depth(a) >= Depth(b)
              /\ trace[1].result = dragMap[a]

\* a lookup from a target registered as a drop node only, below a registered
\* drag node
C18_Witness ==
  /\ trace # <<>>
  /\ trace[1].to = "registry"
  /\ trace[1].ev = "findAncestorDragId"
  /\ trace[1].el = "handle"
  /\ dropMap["handle"] # NoId
  /\ dragMap["handle"] = NoId
  /\ trace[1].result = dragMap["cardEl"]
  /\ trace[1].result = "card"

\* a press on `target` lies inside node n
PressInside(target, n) == n # Null /\ target # Null /\ n \in Ancestors(target)

\* the handler of the last step was DragStart and it started a drag of m
StartedDragOf(m) ==
  \E i \in DOMAIN trace :
    trace[i].ev = "onDragStart" /\ trace[i].to = "engine" /\ trace[i].drag = m

\* C19: a DragStart whose target lies inside the main node of a drag model
\* that has an activator node, but not inside the activator node, does not
\* start a drag of that model
C19_OnlyActivatorStartsDrag ==
  HandlerRan("onDragStart") =>
    \A m \in DOMAIN models :
      (/\ m.type = "drag"
       /\ models[m].activatorNode # Null
       /\ PressInside(trace[1].target, models[m].node)
       /\ ~PressInside(trace[1].target, models[m].activatorNode))
      => ~StartedDragOf(m)

\* a press on the card outside its drag handle
C19_Witness ==
  /\ HandlerRan("onDragStart")
  /\ \E m \in DOMAIN models :
       /\ m.type = "drag"
       /\ models[m].activatorNode = "handle"
       /\ models[m].node = "cardEl"
       /\ trace[1].target = "cardEl"

\* the options of reatomDnd({name})
NameOnly == NoEngine

\* the last step was reatomDnd called with the three options left out
ConstructedWithNameOnly ==
  /\ trace # <<>>
  /\ trace[1].ev = "reatomDnd"
  /\ trace[1].options = NameOnly

\* C20: an engine created with only `name` is constructed without error and
\* is the engine created with sensors = [mouseSensor()], intersectionStrategy
\* = rectangleIntersection and modifiers = []
C20_OmittedOptionsAreDefaults ==
  ConstructedWithNameOnly =>
    /\ trace[1].outcome.result = "engine"
    /\ trace[1].outcome = reatomDnd(DefaultOptions)

\* reatomDnd({name}) was called
C20_Witness == ConstructedWithNameOnly /\ Len(trace) = 1

\* what the page can observe of an engine: its session cells, caches,
\* registry and the cells of its models (the private internalId left out)
Observable(p) ==
  [dragging |-> p.dragging, dropping |-> p.dropping, dragCache |-> p.dragCache,
   dropCache |-> p.dropCache, dragMap |-> p.dragMap, dropMap |-> p.dropMap,
   pointer |-> p.pointer, overlay |-> p.overlay,
   models |-> [m \in DOMAIN p.models |->
                 [node |-> p.models[m].node, disabled |-> p.models[m].disabled,
                  rect |-> p.models[m].rect, handlers |-> p.models[m].handlers]]]

\* engine "b" next to engine "a" has taken the round's input and is at rest
RoundTaken == worlds.focus = "b" /\ worlds.handled /\ Ready

\* C21: given the same registrations and sensor events, engine "b" on a page
\* that also has engine "a" (registered on other nodes, taking the same
\* sensor events) has the same cells, caches, registry and model cells as
\* engine "b" on a page of its own, and has made the same calls
C21_EnginesDoNotInterfere ==
  RoundTaken =>
    /\ Observable(Packed) = Observable(worlds.parked["alone"])
    /\ worlds.outcome["b"] = worlds.outcome["alone"]

\* engine "a" rendered first and is dragging its own card; engine "b", whose
\* models got other internalIds than on a page of its own, started no drag on
\* the press that engine "a" took
C21_Witness ==
  /\ RoundTaken
  /\ worlds.input.op = "onDragStart"
  /\ worlds.input.target = "free"
  /\ worlds.parked["a"].dragging # NoModel
  /\ dragging = NoModel
  /\ MapHas(dragCache, "card")
  /\ models[MapGet(dragCache, "card", NoModel)].internalId
       # worlds.parked["alone"].models[MapGet(dragCache, "card", NoModel)].internalId

\* the last step was a call of a composite modifier
ComposedCalled == trace # <<>> /\ trace[1].ev = "makeModifiers"

\* C22: the composite of a list of modifiers calls them left to right, each
\* with the position the previous one returned (the first with p) and the
\* context it was called with, and returns what the last one returned; the
\* composite of the empty list returns p
C22_ModifiersFoldLeft ==
  ComposedCalled =>
    LET c == trace[1]
        p == c.args.position
    IN /\ Len(c.calls) = Len(c.mods)
       /\ \A i \in DOMAIN c.calls :
            /\ c.calls[i].modifier = c.mods[i]
            /\ c.calls[i].args =
                 [c.args EXCEPT !.position = IF i = 1 THEN p ELSE c.calls[i - 1].result]
            /\ c.calls[i].result = applyModifier(c.mods[i], c.calls[i].args)
       /\ c.result = IF c.mods = <<>> THEN p ELSE c.calls[Len(c.calls)].result

\* an offset followed by the grid: the grid is given the shifted position
C22_Witness ==
  /\ ComposedCalled
  /\ Len(trace[1].mods) >= 2
  /\ trace[1].mods[1].kind = "offset"
  /\ trace[1].mods[2].kind = "grid"
  /\ trace[1].calls[2].args.position # trace[1].args.position
  /\ trace[1].result # trace[1].calls[1].result

\* the calls of kind ev a sensor received for one subscription on the composite
SensorCalls(ev, sensor, call) ==
  {i \in DOMAIN trace :
     trace[i].ev = ev /\ trace[i].sensor = sensor /\ trace[i].call = call}

\* C23: one subscription on a composite of N sensors subscribes once, with
\* the same method and arguments, on each of the N sensors; calling the
\* cleanup it returned calls the cleanup of each of those subscriptions once,
\* so that none of them stays active
C23_CompositeFansOut ==
  Composite =>
    \A k \in DOMAIN trace :
      trace[k].ev = "composite.subscribe" =>
        LET c == trace[k]
            cleaned == \E j \in DOMAIN trace :
                         trace[j].ev = "composite.cleanup" /\ trace[j].call = c.call
        IN /\ \A sensor \in DOMAIN trace[1].sensors :
                /\ Cardinality(SensorCalls("subscribe", sensor, c.call)) = 1
                /\ \A i \in SensorCalls("subscribe", sensor, c.call) :
                     trace[i].method = c.method /\ trace[i].args = c.args
                /\ Cardinality(SensorCalls("cleanup", sensor, c.call))
                     = IF cleaned THEN 1 ELSE 0
           /\ \A i \in DOMAIN trace :
                (trace[i].ev \in {"subscribe", "cleanup"} /\ trace[i].call = c.call)
                  => trace[i].sensor \in DOMAIN trace[1].sensors

\* on a composite of two sensors, a subscription with a node argument was
\* cleaned up while another subscription stays
C23_Witness ==
  /\ Composite
  /\ Len(trace[1].sensors) = 2
  /\ \E k \in DOMAIN trace :
       /\ trace[k].ev = "composite.cleanup"
       /\ trace[k].method = "onDropEnter"
       /\ Cardinality(SensorCalls("cleanup", 2, trace[k].call)) = 1
  /\ \E k \in DOMAIN trace :
       /\ trace[k].ev = "composite.subscribe"
       /\ SensorCalls("cleanup", 1, trace[k].call) = {}

\* the unit cells of the plane that lie inside a rect; of both rects
Cells(r) ==
  {c \in (0..(MaxCoord - 1)) \X {b - 1 : b \in Bottoms \ {0}} :
     /\ r.left <= c[1] /\ c[1] + 1 <= r.right
     /\ r.top <= c[2] /\ c[2] + 1 <= r.bottom}
OverlapArea(a, b) == Cardinality(Cells(a) \cap Cells(b))
Area(r) == Cardinality(Cells(r))
IntersectionCalled == trace # <<>> /\ trace[1].ev = "rectangleIntersection"
RangeOf(seq) == {seq[i] : i \in DOMAIN seq}

\* C24: rectangleIntersection returns exactly the candidates whose overlap
\* with the overlay rect has a strictly positive area, each once: nothing when
\* the overlay's area is 0, and never a candidate of zero overlap
C24_OnlyPositiveOverlap ==
  IntersectionCalled =>
    LET c == trace[1]
        returned == [i \in DOMAIN c.result |-> c.result[i].droppingRect]
    IN /\ RangeOf(returned)
            = {d \in RangeOf(c.args.droppingRects) : OverlapArea(c.args.overlayRect, d) > 0}
       /\ \A i, j \in DOMAIN returned : returned[i] = returned[j] => i = j
       /\ Area(c.args.overlayRect) = 0 => c.result = <<>>

\* of three candidates over an overlay of positive area, one that overlaps it
\* was returned and one that only touches it was not
C24_Witness ==
  /\ IntersectionCalled
  /\ Len(trace[1].args.droppingRects) = 3
  /\ Len(trace[1].result) = 1
  /\ \E d \in RangeOf(trace[1].args.droppingRects) :
       /\ d.right = trace[1].args.overlayRect.left
       /\ d.width > 0 /\ d.height > 0

\* C25: the value of a returned candidate is its overlap area divided by the
\* overlay's area, 1 when the overlay lies inside the candidate; the result is
\* in descending order of value and candidates of equal value keep the order
\* they were given in
C25_RatioDescendingStable ==
  IntersectionCalled =>
    LET c == trace[1]
        overlayRect == c.args.overlayRect
        at(i) == CHOOSE k \in DOMAIN c.args.droppingRects :
                   c.args.droppingRects[k] = c.result[i].droppingRect
    IN /\ \A i \in DOMAIN c.result :
            LET v == c.result[i].value
                d == c.result[i].droppingRect
            IN /\ v.den # 0
               /\ v.num * Area(overlayRect) = OverlapArea(overlayRect, d) * v.den
               /\ (Cells(overlayRect) \subseteq Cells(d)) => v.num = v.den
       /\ \A i, j \in DOMAIN c.result :
            i < j =>
              /\ c.result[i].value.num * c.result[j].value.den
                   >= c.result[j].value.num * c.result[i].value.den
              /\ (c.result[i].value.num * c.result[j].value.den
                    = c.result[j].value.num * c.result[i].value.den) => at(i) < at(j)

\* three candidates were returned in another order than given: the last one
\* contains the overlay, the first two overlap it equally
C25_Witness ==
  /\ IntersectionCalled
  /\ Len(trace[1].result) = 3
  /\ trace[1].result[1].droppingRect = trace[1].args.droppingRects[3]
  /\ trace[1].result[1].value.num = trace[1].result[1].value.den
  /\ trace[1].result[2].droppingRect = trace[1].args.droppingRects[1]
  /\ trace[1].result[2].value = trace[1].result[3].value
  /\ trace[1].result[2].value.num < trace[1].result[2].value.den

ClosestCalled == trace # <<>> /\ trace[1].ev \in {"closestCenter", "closestCorner"}

\* the Euclidean distance between two points, in units of 1 / Scale
Distance(a, b) == sqrt((a.x - b.x) * (a.x - b.x) + (a.y - b.y) * (a.y - b.y))
FracEqual(a, b) == a.num * b.den = b.num * a.den

\* twice the center of a rect, the middle between its edges, and twice a point
DoubleCenter(r) == [x |-> r.left + r.right, y |-> r.top + r.bottom]
Double(p) == [x |-> 2 * p.x, y |-> 2 * p.y]

\* corner i of a rect: 1 top-left, 2 top-right, 3 bottom-left, 4 bottom-right
Corner(r, i) ==
  [x |-> IF i \in {1, 3} THEN r.left ELSE r.right,
   y |-> IF i \in {1, 2} THEN r.top ELSE r.bottom]

\* v is the value the strategy of the recorded call c owes candidate d
IsValueOf(v, c, d) ==
  IF c.ev = "closestCenter"
  THEN /\ FracEqual(v, [num |-> Distance(Double(c.args.pointer), DoubleCenter(d)),
                        den |-> 2 * Scale])
       /\ (Double(c.args.pointer) = DoubleCenter(d)) => v.num = 0
  ELSE LET ds == [i \in 1..4 |-> Distance(Corner(c.args.overlayRect, i), Corner(d, i))]
           total == [num |-> ds[1] + ds[2] + ds[3] + ds[4], den |-> Scale]
       IN CASE c.aggregation = "sum" -> FracEqual(v, total)
            [] c.aggregation = "average" -> FracEqual(v, [total EXCEPT !.den = 4 * Scale])
            [] c.aggregation = "min" ->
                 /\ \E i \in 1..4 : FracEqual(v, [num |-> ds[i], den |-> Scale])
                 /\ \A i \in 1..4 : ~FracLess([num |-> ds[i], den |-> Scale], v)

\* C26: closestCenter and the three closestCorner strategies return every
\* candidate once and nothing else, in ascending order of value with
\* candidates of equal value in the order given; closestCenter's value is the
\* distance from the pointer to the candidate's center (0 at the center), a
\* corner strategy's value is the sum, minimum or average of the distances
\* between the same corners of overlay and candidate
C26_ClosestSortedPermutation ==
  ClosestCalled =>
    LET c == trace[1]
        given == c.args.droppingRects
        at(i) == CHOOSE k \in DOMAIN given : given[k] = c.result[i].droppingRect
    IN /\ Len(c.result) = Len(given)
       /\ \A k \in DOMAIN given :
            Cardinality({i \in DOMAIN c.result : c.result[i].droppingRect = given[k]}) = 1
       /\ \A i \in DOMAIN c.result :
            /\ c.result[i].value.den > 0
            /\ IsValueOf(c.result[i].value, c, c.result[i].droppingRect)
       /\ \A i, j \in DOMAIN c.result :
            i < j =>
              /\ ~FracLess(c.result[j].value, c.result[i].value)
              /\ FracEqual(c.result[i].value, c.result[j].value) => at(i) < at(j)

\* a corner strategy ranked three candidates: the last one given first, at a
\* distance that is no whole number, the other two at equal values after it
C26_Witness ==
  /\ ClosestCalled
  /\ trace[1].ev = "closestCorner"
  /\ trace[1].aggregation = "average"
  /\ Len(trace[1].result) = 3
  /\ trace[1].result[1].droppingRect = trace[1].args.droppingRects[3]
  /\ trace[1].result[1].value.num % Scale # 0
  /\ trace[1].result[2].droppingRect = trace[1].args.droppingRects[1]
  /\ FracEqual(trace[1].result[2].value, trace[1].result[3].value)

\* the calls made on the rect, by position in the record
RectCalls(ev) == {i \in DOMAIN trace : RectMade /\ trace[i].ev = ev}

\* C27: updateWithOffset is additive: two calls in a row leave the rect one
\* call with the summed deltas would have left; a call moves left, right and
\* x by one amount and top, bottom and y by one amount, and leaves width,
\* height and id as they were (coordinates and deltas are whole numbers)
C27_OffsetAdditive ==
  /\ \A i \in RectCalls("updateWithOffset") :
       LET b == trace[i].before
           a == trace[i].after
       IN /\ a.left - b.left = a.right - b.right
          /\ a.left - b.left = a.x - b.x
          /\ a.top - b.top = a.bottom - b.bottom
          /\ a.top - b.top = a.y - b.y
          /\ a.width = b.width /\ a.height = b.height /\ a.id = b.id
  /\ \A i \in RectCalls("updateWithOffset") :
       (i + 1) \in RectCalls("updateWithOffset") =>
         trace[i + 1].after
           = updateWithOffset(trace[i].before,
                              trace[i].delta.deltaX + trace[i + 1].delta.deltaX,
                              trace[i].delta.deltaY + trace[i + 1].delta.deltaY)

\* two different non-zero offsets were applied one after the other
C27_Witness ==
  \E i \in RectCalls("updateWithOffset") :
    /\ (i + 1) \in RectCalls("updateWithOffset")
    /\ trace[i].delta.deltaX = 1 /\ trace[i].delta.deltaY = 1
    /\ trace[i + 1].delta.deltaX = -1 /\ trace[i + 1].delta.deltaY = 1
    /\ trace[i + 1].after # trace[i].before

\* C28: update with a box whose fields equal the stored rect's replaces
\* nothing (the atom is not set, so no change is propagated), and only then;
\* a second update with the same box leaves the value the first one left
C28_UpdateIdempotent ==
  /\ \A i \in RectCalls("update") :
       /\ trace[i].set
            <=> \E f \in {"x", "y", "width", "height", "left", "right", "top", "bottom"} :
                  trace[i].before[f] # trace[i].rect[f]
       /\ ~trace[i].set => trace[i].after = trace[i].before
  /\ \A i \in RectCalls("update") :
       ((i + 1) \in RectCalls("update") /\ trace[i + 1].rect = trace[i].rect) =>
         /\ trace[i + 1].after = trace[i].after
         /\ ~trace[i + 1].set

\* a moved rect was updated twice with one box: the first call replaced the
\* value, the second did not
C28_Witness ==
  \E i \in RectCalls("update") :
    /\ (i + 1) \in RectCalls("update")
    /\ trace[i + 1].rect = trace[i].rect
    /\ trace[i].set
    /\ ~trace[i + 1].set
    /\ (i - 1) \in RectCalls("updateWithOffset")

\* C29: whatever calls were made, the stored rect has right = left + width,
\* bottom = top + height and the id it was made with; updatePosition puts
\* left and top at the position and keeps width and height
C29_RectWellFormed ==
  RectMade =>
    /\ \A i \in DOMAIN trace :
         /\ trace[i].after.right = trace[i].after.left + trace[i].after.width
         /\ trace[i].after.bottom = trace[i].after.top + trace[i].after.height
         /\ trace[i].after.id = trace[1].after.id
    /\ \A i \in RectCalls("updatePosition") :
         /\ trace[i].after.left = trace[i].position.x
         /\ trace[i].after.top = trace[i].position.y
         /\ trace[i].after.width = trace[i].before.width
         /\ trace[i].after.height = trace[i].before.height

\* a rect of non-zero width was measured, scrolled and then positioned
C29_Witness ==
  /\ RectMade
  /\ Len(trace) = 4
  /\ trace[2].ev = "update" /\ trace[2].set /\ trace[2].after.width = 1
  /\ trace[3].ev = "updateWithOffset" /\ trace[3].delta.deltaX = 1
  /\ trace[4].ev = "updatePosition" /\ trace[4].position.x = 1
  /\ trace[4].after.right = 2

\* what the strategy ranks in the pass this step runs: the rects it is handed,
\* with the pointer, the dragged rect and the overlay rect of before the pass
Ranked ==
  intersectionStrategy([pointer |-> pointer, draggingRect |-> models[dragging].rect,
                        droppingRects |-> trace'[1].rects, overlayRect |-> overlay.rect])

\* C30: a collision pass leaves in `dropping` the cached drop model whose rect
\* the strategy ranked first, or nothing when it ranked nothing; it calls
\* onDropEnter or onDropLeave only if that is another value than `dropping`
\* had before the pass
C30_DroppingIsFirstRanked ==
  [][PassRan' =>
       /\ Ranked = <<>> => dropping' = NoModel
       /\ Ranked # <<>> =>
            /\ \E i \in DOMAIN MapValues(dropCache) : MapValues(dropCache)[i] = dropping'
            /\ models[dropping'].rect = Ranked[1].droppingRect
       /\ (\E i \in DOMAIN trace' : trace'[i].ev \in {"onDropEnter", "onDropLeave"})
            => dropping' # dropping]_vars

\* a pass that ranked the drop model already entered first: nothing was called
C30_Witness ==
  /\ PassRan
  /\ Len(trace) = 1
  /\ trace[1].seenDropping # NoModel
  /\ dropping = trace[1].seenDropping
  /\ Len(trace[1].rects) > 0


\* ------------------------------------------------------------- C31 .. C40
\* a drop model whose node is on the page
Attached(m) == models[m].node # Null /\ models[m].node \in connected

\* the step is a DragStart that found its model
DragStarted == HandlerStep("onDragStart") /\ Len(trace') > 1

\* the step leaves m's rect as a fresh measurement of its node
Remeasured(m) ==
  models'[m].rect = makeRect(m.id, getBoundingClientRect(models[m].node))

\* C31: a successful DragStart replaces the rect of every cached drop model
\* that is enabled and attached by a fresh measurement of its node, and leaves
\* the rects of disabled or detached drop models unchanged; the listeners of
\* onDragStart are called in the same step, on the rects so measured.
C31_DragStartRemeasures ==
  [][DragStarted =>
       \A m \in CachedDrops :
         IF ~models[m].disabled /\ Attached(m)
         THEN Remeasured(m)
         ELSE models'[m].rect = models[m].rect]_vars

\* C31, for the drop models the registry still maps: a successful DragStart
\* measures every cached drop model that is enabled, attached and registered
\* under its id, and leaves every other model's rect unchanged.
C31_RegisteredRemeasured ==
  [][DragStarted =>
       \A m \in DOMAIN models :
         IF m \in CachedDrops /\ Hittable(m)
         THEN Remeasured(m)
         ELSE models'[m].rect = models[m].rect]_vars

\* a drag has started on a page with a measured drop model and a disabled one
\* that kept the rect it had
C31_Witness ==
  /\ HandlerRan("onDragStart") /\ Len(trace) > 1
  /\ \E m \in CachedDrops :
       /\ Hittable(m)
       /\ models[m].rect = makeRect(m.id, getBoundingClientRect(models[m].node))
  /\ \E m \in CachedDrops :
       /\ models[m].disabled /\ Attached(m)
       /\ models[m].rect # makeRect(m.id, getBoundingClientRect(models[m].node))

\* a drag has started and a cached drop model that is enabled and attached
\* goes on with the rect it was created with
C31_Unmeasured ==
  /\ HandlerRan("onDragStart") /\ Len(trace) > 1
  /\ \E m \in CachedDrops :
       /\ ~models[m].disabled /\ Attached(m)
       /\ models[m].rect # makeRect(m.id, getBoundingClientRect(models[m].node))


\* the engine-level emissions of the step that close the drag of model m
Closings(m) ==
  {i \in 1..Len(trace') :
     /\ trace'[i].to = "engine"
     /\ trace'[i].ev \in {"onDragEnd", "onDragCancel"}
     /\ trace'[i].drag = m}

\* C32: onDragStart is emitted only while nothing is dragged, the dragged
\* model changes only by the drag being closed, and the step that closes a
\* drag emits exactly one onDragEnd or onDragCancel for the dragged model; so
\* every onDragStart is followed by exactly one onDragEnd or onDragCancel for
\* the same model before the next onDragStart, and a DragStart received
\* while dragging does not replace the dragged model.
C32_StartsAndEndsAlternate ==
  [][/\ DragStarted => dragging = NoModel
     /\ dragging # NoModel /\ dragging' # dragging =>
          dragging' = NoModel /\ Cardinality(Closings(dragging)) = 1]_vars

\* C32, the closing half: whenever the dragged model is cleared, exactly one
\* onDragEnd or onDragCancel is emitted for it in that step, and no step
\* other than a DragStart puts a model into the cell.
C32_EveryCloseEmitsOnce ==
  [][/\ dragging # NoModel /\ dragging' = NoModel =>
          Cardinality(Closings(dragging)) = 1
     /\ dragging' # NoModel /\ dragging' # dragging => DragStarted]_vars

\* a drag has been closed by a DragEnd or a Cancel
C32_Witness ==
  /\ dragging = NoModel
  /\ \/ HandlerRan("onDragEnd") \/ HandlerRan("onCancel")
  /\ trace[1].seenDragging # NoModel

\* onDragStart has been emitted while a drag was open
C32_Restarted ==
  /\ HandlerRan("onDragStart") /\ Len(trace) > 1
  /\ trace[1].seenDragging # NoModel


\* a container scrolls during a drag
ScrollsInDrag(c) == dragging # NoModel /\ scrollOffset'[c] # scrollOffset[c]

\* the step enqueues for c the distance c scrolled in it
EnqueuesDistance(c) ==
  enqueued' = Append(enqueued, [container |-> c,
                                deltaX |-> scrollOffset'[c].left - scrollOffset[c].left,
                                deltaY |-> scrollOffset'[c].top - scrollOffset[c].top])

\* C33: every scroll of a container during a drag enqueues for it the
\* distance it scrolled since its previous scroll event of the drag, or since
\* DragStart for its first one, whatever the container holds and whatever an
\* earlier drag recorded for it; the offset changes only by scroll events, so
\* the deltas enqueued for a container during one drag add up to its offset
\* at its last scroll event minus its offset at DragStart.
C33_DeltasSumToDistance ==
  [][\A c \in Containers : ScrollsInDrag(c) => EnqueuesDistance(c)]_vars

\* C33, for the document, which every DragStart snapshots: its scrolls during
\* a drag enqueue the distance scrolled.
C33_DocumentSumsToDistance ==
  [][ScrollsInDrag(Document) => EnqueuesDistance(Document)]_vars

\* the document has scrolled twice during a drag and both deltas are pending
C33_Witness ==
  /\ dragging # NoModel
  /\ Len(SelectSeq(enqueued, LAMBDA d : d.container = Document)) = 2

\* a container other than the document has scrolled during a drag, away from
\* where it was at DragStart, and nothing was enqueued
C33_LostScroll ==
  /\ dragging # NoModel
  /\ \E c \in Containers \ {Document} :
       scrollOffset[c] # [top |-> 0, left |-> 0] /\ positions[c] = scrollOffset[c]
  /\ enqueued = <<>> /\ rafId = NoRaf /\ passes = 0 /\ pageOps = 1


\* C34: whenever a DragEnd emits onDrop, on the drop model's listeners or on
\* the engine, the drop model it names is at that moment cached, enabled and
\* attached.
C34_DropOnlyOnLiveModel ==
  HandlerRan("onDragEnd") =>
    \A i \in CallsOf("onDrop") :
      /\ trace[i].drop \in CachedDrops
      /\ ~models[trace[i].drop].disabled
      /\ Attached(trace[i].drop)

\* C34, as the code has it: the drop model named by onDrop is the one the
\* dropping cell held when the DragEnd arrived.
C34_DropOnActiveCell ==
  HandlerRan("onDragEnd") =>
    \A i \in CallsOf("onDrop") : trace[i].drop = trace[1].seenDropping

\* a DragEnd has dropped on a model that is cached, enabled and attached
C34_Witness ==
  /\ HandlerRan("onDragEnd")
  /\ \E i \in CallsOf("onDrop") :
       /\ trace[i].drop \in CachedDrops
       /\ Hittable(trace[i].drop)

\* a DragEnd has dropped on a model that was disposed of during the drag
C34_DroppedOnDisposed ==
  /\ HandlerRan("onDragEnd")
  /\ \E i \in CallsOf("onDrop") : trace[i].drop \notin CachedDrops

\* a DragEnd has dropped on a model that was disabled during the drag
C34_DroppedOnDisabled ==
  /\ HandlerRan("onDragEnd")
  /\ \E i \in CallsOf("onDrop") :
       trace[i].drop \in CachedDrops /\ models[trace[i].drop].disabled

\* a DragEnd has dropped on a model whose node was detached during the drag
C34_DroppedOnDetached ==
  /\ HandlerRan("onDragEnd")
  /\ \E i \in CallsOf("onDrop") :
       trace[i].drop \in CachedDrops /\ ~Attached(trace[i].drop)


\* the instance is the one its cache holds under its id
IsCached(m) == MapGet(CacheOf(m.type), m.id, NoModel) = m

\* C35: a non-empty dragging cell, and a non-empty dropping cell, refers to
\* the instance currently cached under its id.
C35_SessionRefersToCached ==
  /\ dragging # NoModel => IsCached(dragging)
  /\ dropping # NoModel => IsCached(dropping)

\* C35, at the moment a cell is written: the model a DragStart puts into
\* dragging, and the model a collision pass puts into dropping, is the
\* instance cached under its id.
C35_CachedWhenSet ==
  [][/\ dragging' # NoModel /\ dragging' # dragging => IsCached(dragging)'
     /\ dropping' # NoModel /\ dropping' # dropping => IsCached(dropping)']_vars

\* a drag is over a drop model after the page has rendered again, and both
\* cells hold cached instances
C35_Witness ==
  /\ dragging # NoModel /\ IsCached(dragging)
  /\ dropping # NoModel /\ IsCached(dropping)
  /\ PassRan /\ pageOps > 0

\* the dragged model has been replaced by a new instance of its id, whose
\* listeners the session will not reach
C35_DraggingReplaced ==
  /\ dragging # NoModel
  /\ MapHas(dragCache, dragging.id) /\ ~IsCached(dragging)
  /\ dragging \notin dragListeners

\* the active drop model has been disposed of
C35_DroppingDisposed ==
  /\ dropping # NoModel
  /\ ~MapHas(dropCache, dropping.id)
  /\ dropping \notin dropListeners


\* the registry map of a model's namespace
NodeMapOf(type) == IF type = "drag" THEN dragMap ELSE dropMap

\* the node of m is registered under m's id in m's namespace, and the
\* scroll-parent index lists the id under each of the node's containers
Indexed(m) ==
  LET n == models[m].node
  IN /\ NodeMapOf(m.type)[n] = m.id
     /\ \A c \in {Document} \cup SeqToSet(getScrollableParents(n)) : m.id \in containerToIds[c]

\* the cached models that have a node
CachedWithNode ==
  {m \in SeqToSet(MapValues(dragCache \o dropCache)) : models[m].node # Null}

\* C36: for every cached drag or drop model with a node, the registry maps the
\* node to the model's id in its namespace and the scroll-parent index lists
\* the id under the node's containers.
C36_CachedNodesIndexed ==
  \A m \in CachedWithNode : Indexed(m)

\* no other instance was ever made for m's id
OnlyInstance(m) ==
  \A o \in DOMAIN models : o.type = m.type /\ o.id = m.id => o = m

\* C36, for ids registered once: a cached model with a node that is the only
\* instance ever made for its id is registered and indexed.
C36_OnlyInstanceIndexed ==
  \A m \in CachedWithNode : OnlyInstance(m) => Indexed(m)

\* after two changes by the page the node of todo is registered no more, and
\* done, registered once and holding its node, is indexed
C36_Witness ==
  /\ pageOps = 2
  /\ \E m \in CachedWithNode : OnlyInstance(m) /\ Indexed(m) /\ m.id = "done"
  /\ dropMap["todoEl"] = NoId

\* a model registered again under its id holds the node of the instance it
\* replaced, and the registry no longer knows the node
C36_NodeForgotten ==
  \E m \in CachedWithNode :
    /\ ~OnlyInstance(m)
    /\ models[m].node \in connected
    /\ NodeMapOf(m.type)[models[m].node] = NoId
    /\ m.id \notin containerToIds[Document]


\* the subscription made by the call-th observer call has not been torn down
LiveSubscription(call) ==
  /\ trace[call].ev = "observe"
  /\ \A j \in 1..Len(trace) : ~(trace[j].ev = "teardown" /\ trace[j].of = call)

\* the call-th call is the last subscription of its element
LastSubscription(call) ==
  \A j \in (call + 1)..Len(trace) :
    ~(trace[j].ev = "observe" /\ trace[j].element = trace[call].element)

\* the observer observes the call's element and maps it to the call's callback
Subscribed(call) ==
  /\ resizeState.callbackMap[trace[call].element] = trace[call].callback
  /\ trace[call].element \in resizeState.observed

\* C37: the last subscription of a node, as long as its own teardown has not
\* run, is observed and mapped to its callback, whatever teardowns of earlier
\* subscriptions of that node have run and whenever they ran.
C37_NewSubscriptionSurvives ==
  \A call \in 1..Len(trace) :
    LiveSubscription(call) /\ LastSubscription(call) => Subscribed(call)

\* C37, teardown first: the last subscription of a node is observed and
\* mapped to its callback if no teardown for that node ran after it.
C37_SurvivesEarlierTeardown ==
  \A call \in 1..Len(trace) :
    (/\ LiveSubscription(call) /\ LastSubscription(call)
     /\ \A j \in (call + 1)..Len(trace) : trace[j].element # trace[call].element)
    => Subscribed(call)

\* the previous instance's subscription was torn down and then the new
\* instance subscribed the same node
C37_Witness ==
  /\ Len(trace) = 3
  /\ trace[1].ev = "observe" /\ trace[2].ev = "teardown" /\ trace[3].ev = "observe"
  /\ trace[3].element = trace[1].element /\ trace[3].callback # trace[1].callback
  /\ Subscribed(3)

\* the new instance subscribed the node and then the previous instance's
\* subscription was torn down: the node is observed no more
C37_NewSubscriptionRemoved ==
  /\ Len(trace) = 3
  /\ trace[1].ev = "observe" /\ trace[2].ev = "observe" /\ trace[3].ev = "teardown"
  /\ trace[2].element = trace[1].element /\ trace[2].callback # trace[1].callback
  /\ trace[3].of = 1
  /\ trace[2].element \notin resizeState.observed


\* the id of m names a model of the other kind too
SharedId(m) == \E o \in DOMAIN models : o.id = m.id /\ o.type # m.type

\* the step applies scroll deltas and the rect of m moves by the deltas of
\* the containers its own node lies inside, and by no others
FollowsOwnNode(m) ==
  LET deltas == AppliedIn(trace')[1].deltas
  IN /\ models'[m].rect.x = models[m].rect.x - MoveBy(deltas, m)
     /\ models'[m].rect.left = models[m].rect.left - MoveBy(deltas, m)
     /\ models'[m].rect.right = models[m].rect.right - MoveBy(deltas, m)

\* C38: the drag and the drop namespace are separate in scroll propagation:
\* also on a page where a drag model and a drop model have the same id, and
\* whatever was done to the node of the other, the scrolls that translate a
\* model's rect are those of the containers its own node lies inside.
C38_NamespacesSeparate ==
  [][AppliedIn(trace') # <<>> => \A m \in DOMAIN models : FollowsOwnNode(m)]_vars

\* C38, for the ids of one kind only: the scrolls that translate the rect of
\* a model whose id no model of the other kind has are those of the
\* containers its node lies inside.
C38_UnsharedFollowOwnNode ==
  [][AppliedIn(trace') # <<>> =>
       \A m \in DOMAIN models : ~SharedId(m) => FollowsOwnNode(m)]_vars

\* a scroll of the list was applied during a drag of the item inside it, and
\* the rects of the drag and of the drop model of the shared id both moved
C38_Witness ==
  /\ dragging # NoModel /\ SharedId(dragging)
  /\ trace # <<>> /\ trace[1].to = "batcher"
  /\ \E i \in 1..Len(trace[1].deltas) :
       trace[1].deltas[i].container = "list" /\ trace[1].deltas[i].deltaX = 1
  /\ Moves("list", dragging)
  /\ models[dragging].rect.x = -1
  /\ \E m \in CachedDrops :
       /\ SharedId(m) /\ Moves("list", m)
       /\ models[m].rect = makeRect(m.id, getBoundingClientRect(models[m].node))

\* a scroll of the list was applied during a drag of the item inside it, and
\* the item's rect stayed, the node of the drop model of its id being cleared
C38_DragLeftBehind ==
  /\ dragging # NoModel /\ SharedId(dragging)
  /\ trace # <<>> /\ trace[1].to = "batcher"
  /\ \E i \in 1..Len(trace[1].deltas) :
       trace[1].deltas[i].container = "list" /\ trace[1].deltas[i].deltaX = 1
  /\ Moves("list", dragging)
  /\ models[dragging].rect.x = 0


\* the rect is what its owner's node measures as on this page, which does
\* not scroll and whose layout does not change: any measurement taken since
\* the DragStart gives it
FreshRect(r) ==
  LET owner == MapGet(dropCache, r.id, NoModel)
  IN /\ owner # NoModel
     /\ models[owner].node # Null
     /\ r = makeRect(r.id, getBoundingClientRect(models[owner].node))

\* C39: every drop rect a collision pass hands to the intersection strategy
\* was measured at or after the DragStart of the drag; on a page that does
\* not scroll it is the box its node has.
C39_CandidatesMeasuredInDrag ==
  PassRan => \A i \in 1..Len(trace[1].rects) : FreshRect(trace[1].rects[i])

\* C39, while the page makes no change: the rects handed to the strategy are
\* the boxes measured at DragStart.
C39_UnchangedPageMeasured ==
  PassRan /\ pageOps = 0 =>
    \A i \in 1..Len(trace[1].rects) : FreshRect(trace[1].rects[i])

\* a pass on the first render handed the measured rects of both columns over
C39_Witness ==
  /\ PassRan /\ pageOps = 0
  /\ Len(trace[1].rects) = 2
  /\ \A i \in 1..2 : FreshRect(trace[1].rects[i]) /\ trace[1].rects[i].width > 0

\* a drop model enabled during the drag entered the pass with the empty rect
\* it was created with
C39_UnmeasuredCandidate ==
  /\ PassRan
  /\ \E i \in 1..Len(trace[1].rects) :
       /\ trace[1].rects[i].width = 0
       /\ ~FreshRect(trace[1].rects[i])
       /\ OnlyInstance(MapGet(dropCache, trace[1].rects[i].id, NoModel))


\* the instance cached for an id of one kind, before and after the step
CachedFor(type, id) == MapGet(CacheOf(type), id, NoModel)
CachedNext(type, id) == MapGet(CacheOf(type)', id, NoModel)

\* the cache entries the step changes
EntriesChanged ==
  {e \in {"drag", "drop"} \X Ids : CachedNext(e[1], e[2]) # CachedFor(e[1], e[2])}

\* C40: a step that is not a factory call (so every dispose(): of the cached
\* instance, of an instance replaced by a re-registration, or a repeated one)
\* either leaves the instance cached for an id cached, with its listeners
\* object and its subscribers as they were, or removes the entry together
\* with that very instance's listeners, and then changes no other entry; it
\* caches nothing.
C40_DisposeTouchesOwnEntry ==
  [][refCounter' = refCounter =>
       \A type \in {"drag", "drop"} : \A id \in Ids :
         LET c == CachedFor(type, id)
         IN IF c = NoModel THEN CachedNext(type, id) = NoModel
            ELSE \/ /\ CachedNext(type, id) = c
                    /\ c \in ListenersOf(type)'
                    /\ models'[c].handlers = models[c].handlers
                 \/ /\ CachedNext(type, id) = NoModel
                    /\ c \notin ListenersOf(type)'
                    /\ models'[c].handlers = <<>>
                    /\ EntriesChanged = {<<type, id>>}]_vars

\* a drop id was registered again and the new instance then disposed of: the
\* id has no entry, the other ids have theirs, with their subscribers
C40_Witness ==
  /\ pageOps = 2
  /\ \E m \in DOMAIN models :
       /\ m.type = "drop" /\ m.gen = 1
       /\ ~MapHas(dropCache, m.id)
       /\ m \notin dropListeners
       /\ \A id \in DropIds \ {m.id} :
            /\ MapHas(dropCache, id)
            /\ MapGet(dropCache, id, NoModel) \in dropListeners
            /\ models[MapGet(dropCache, id, NoModel)].handlers # <<>>
  /\ MapHas(dragCache, "card")

====
